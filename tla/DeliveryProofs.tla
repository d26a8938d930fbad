---------------------------- MODULE DeliveryProofs -----------------------------
(***************************************************************************)
(* The streams of AG-UI turns, for any turns and any number of events, the *)
(* artifacts that turns publish, for any calls, results and keys, the pool *)
(* of a project, for any documents and any size of a page, and what a turn *)
(* says to a relay, for any requests and outcomes.                         *)
(*                                                                         *)
(* A stream is well-formed because of what the turn remembers while it     *)
(* writes: WellFormed relates the two, event by event.  That a turn builds *)
(* on the ones that finished before it needs what they saved and what the  *)
(* present one has loaded (ApartInv).  OneArtifactEach needs that a key    *)
(* which is not chosen names a turn and bytes (KeyOf), in every request on *)
(* its way as well as on the shelf.  What the pool answers needs that the  *)
(* uploads of a file share its content (UploadInv), and that nothing with  *)
(* the title is behind the cursor of a search (LookupInv, Pages).  What is *)
(* said arrives because the events on the bus lead from what the store and *)
(* the caller know to what the turn gave (Leads, OnTheWay).                *)
(***************************************************************************)
EXTENDS MCDelivery, Selection, Integers, FiniteSetTheorems, SequenceTheorems, WellFoundedInduction, TLAPS

--------------------------------------------------------------------------------
(* Occurrences of an event in a stream.                                    *)
Positions(s, e) == {i \in DOMAIN s : s[i] = e}

LEMMA OccurrencesType ==
  ASSUME NEW s \in Seq(Event), NEW e
  PROVE  /\ IsFiniteSet(Positions(s, e)) /\ Occurrences(s, e) \in Nat
         /\ Occurrences(s, e) = 0 <=> \A i \in 1 .. Len(s) : s[i] # e
<1>1. Len(s) \in Nat /\ DOMAIN s = 1 .. Len(s)
  BY LenProperties
<1>2. IsFiniteSet(1 .. Len(s)) /\ Positions(s, e) \in SUBSET (1 .. Len(s))
  BY <1>1, FS_Interval DEF Positions
<1>3. IsFiniteSet(Positions(s, e))
  BY <1>2, FS_Subset
<1>4. Occurrences(s, e) = Cardinality(Positions(s, e))
  BY DEF Occurrences, Positions
<1>5. Positions(s, e) = {} <=> \A i \in 1 .. Len(s) : s[i] # e
  BY <1>1 DEF Positions
<1> QED  BY <1>3, <1>4, <1>5, FS_CardinalityType, FS_EmptySet

LEMMA NoOccurrences == \A e : Occurrences(<<>>, e) = 0
<1> SUFFICES ASSUME NEW e  PROVE Occurrences(<<>>, e) = 0
  OBVIOUS
<1>1. {i \in DOMAIN <<>> : <<>>[i] = e} = {}
  OBVIOUS
<1> QED  BY <1>1, FS_EmptySet DEF Occurrences

LEMMA OneMore ==
  ASSUME NEW s \in Seq(Event), NEW x \in Event, NEW e
  PROVE  Occurrences(Append(s, x), e) = IF x = e THEN Occurrences(s, e) + 1 ELSE Occurrences(s, e)
<1>1. Len(s) \in Nat /\ DOMAIN s = 1 .. Len(s) /\ DOMAIN Append(s, x) = 1 .. Len(s) + 1
      /\ (\A i \in 1 .. Len(s) : Append(s, x)[i] = s[i]) /\ Append(s, x)[Len(s) + 1] = x
  BY LenProperties, AppendProperties
<1>2. Positions(Append(s, x), e) = IF x = e THEN Positions(s, e) \cup {Len(s) + 1} ELSE Positions(s, e)
  BY <1>1 DEF Positions
<1>3. Len(s) + 1 \notin Positions(s, e)
  BY <1>1 DEF Positions
<1>4. IsFiniteSet(Positions(s, e))
  BY OccurrencesType
<1>5. Cardinality(Positions(s, e) \cup {Len(s) + 1}) = Cardinality(Positions(s, e)) + 1
  BY <1>3, <1>4, FS_AddElement
<1>6. Occurrences(s, e) = Cardinality(Positions(s, e)) /\ Occurrences(Append(s, x), e) = Cardinality(Positions(Append(s, x), e))
  BY DEF Occurrences, Positions
<1> QED  BY <1>2, <1>5, <1>6

(* A route writes several events at once.                                  *)
LEMMA WriteOne ==
  ASSUME NEW s \in Seq(Event), NEW x \in Event
  PROVE  s \o <<x>> = Append(s, x) /\ Append(s, x) \in Seq(Event) /\ <<x>> \in Seq(Event)
BY AppendProperties

LEMMA WriteTwo ==
  ASSUME NEW s \in Seq(Event), NEW x \in Event, NEW y \in Event
  PROVE  s \o <<x, y>> = Append(Append(s, x), y) /\ s \o (<<x>> \o <<y>>) = Append(Append(s, x), y)
<1>1. <<x>> \in Seq(Event) /\ <<y>> \in Seq(Event) /\ s \o <<x>> = Append(s, x) /\ Append(s, x) \in Seq(Event)
      /\ Append(s, x) \o <<y>> = Append(Append(s, x), y)
  BY WriteOne
<1>2. s \o (<<x>> \o <<y>>) = (s \o <<x>>) \o <<y>>
  BY <1>1, ConcatAssociative
<1>3. <<x>> \o <<y>> = <<x, y>>
  <2>1. <<x, y>> \in Seq(Event) /\ <<x>> \o <<y>> \in Seq(Event) /\ Len(<<x>> \o <<y>>) = 2 /\ Len(<<x, y>>) = 2
    BY <1>1, ConcatProperties
  <2>2. (<<x>> \o <<y>>)[1] = x /\ (<<x>> \o <<y>>)[2] = y
    BY <1>1, ConcatProperties
  <2>3. \A i \in 1 .. 2 : (<<x>> \o <<y>>)[i] = <<x, y>>[i]
    BY <2>2
  <2> HIDE <2>2
  <2>4. Len(<<x>> \o <<y>>) = Len(<<x, y>>) /\ \A i \in 1 .. Len(<<x>> \o <<y>>) : (<<x>> \o <<y>>)[i] = <<x, y>>[i]
    BY <2>1, <2>3
  <2> QED  BY <2>1, <2>4, SeqEqual, Zenon
<1> QED  BY <1>1, <1>2, <1>3

LEMMA WriteFour ==
  ASSUME NEW s \in Seq(Event), NEW x \in Event, NEW y \in Event, NEW z \in Event, NEW w \in Event
  PROVE  s \o (<<x, y, z>> \o <<w>>) = Append(Append(Append(Append(s, x), y), z), w)
<1>1. <<x, y, z>> \o <<w>> = <<x, y>> \o <<z, w>>
  OBVIOUS
<1>2. <<x, y>> \in Seq(Event) /\ <<z, w>> \in Seq(Event)
  OBVIOUS
<1>3. s \o (<<x, y>> \o <<z, w>>) = (s \o <<x, y>>) \o <<z, w>>
  BY <1>2, ConcatAssociative
<1>4. s \o <<x, y>> = Append(Append(s, x), y) /\ Append(Append(s, x), y) \in Seq(Event)
  BY WriteTwo, WriteOne
<1>5. Append(Append(s, x), y) \o <<z, w>> = Append(Append(Append(Append(s, x), y), z), w)
  BY <1>4, WriteTwo
<1> QED  BY <1>1, <1>3, <1>4, <1>5

(* The last event may be the only one that ends the run.                   *)
EndsRun(s) == s # <<>> /\ Final(s[Len(s)]) /\ \A i \in 1 .. Len(s) : Final(s[i]) => i = Len(s)

LEMMA Grown ==
  ASSUME NEW s \in Seq(Event), NEW x \in Event
  PROVE  /\ Append(s, x) \in Seq(Event) /\ Append(s, x) # <<>>
         /\ Head(Append(s, x)) = IF s = <<>> THEN x ELSE Head(s)
         /\ \A e \in Event : Occurrences(Append(s, x), e) = IF x = e THEN Occurrences(s, e) + 1 ELSE Occurrences(s, e)
         /\ \A e \in Event : Occurrences(s, e) \in Nat
         /\ Occurrences(s, "RUN_FINISHED") = 0 /\ Occurrences(s, "RUN_ERROR") = 0 /\ Final(x) => EndsRun(Append(s, x))
<1>1. Append(s, x) \in Seq(Event) /\ Append(s, x) # <<>>
  BY AppendProperties
<1>2. Head(Append(s, x)) = IF s = <<>> THEN x ELSE Head(s)
  BY LenProperties, AppendProperties
<1>3. /\ \A e \in Event : Occurrences(Append(s, x), e) = IF x = e THEN Occurrences(s, e) + 1 ELSE Occurrences(s, e)
      /\ \A e \in Event : Occurrences(s, e) \in Nat
  BY OneMore, OccurrencesType
<1>4. ASSUME Occurrences(s, "RUN_FINISHED") = 0, Occurrences(s, "RUN_ERROR") = 0, Final(x)  PROVE EndsRun(Append(s, x))
  <2>1. \A i \in 1 .. Len(s) : s[i] # "RUN_FINISHED" /\ s[i] # "RUN_ERROR"
    BY <1>4, OccurrencesType
  <2>2. Len(s) \in Nat /\ Len(Append(s, x)) = Len(s) + 1 /\ (\A i \in 1 .. Len(s) : Append(s, x)[i] = s[i])
        /\ Append(s, x)[Len(s) + 1] = x
    BY LenProperties, AppendProperties
  <2>3. ASSUME NEW i \in 1 .. Len(Append(s, x)), i # Len(Append(s, x))  PROVE ~Final(Append(s, x)[i])
    <3>1. i \in 1 .. Len(s)
      BY <2>2, <2>3
    <3> QED  BY <2>1, <2>2, <3>1 DEF Final
  <2> QED  BY <1>1, <1>4, <2>2, <2>3 DEF EndsRun
<1> QED  BY <1>1, <1>2, <1>3, <1>4

--------------------------------------------------------------------------------
(* The invariant of one turn and its stream.                               *)
Quiet(s) == Occurrences(s, "RUN_FINISHED") = 0 /\ Occurrences(s, "RUN_ERROR") = 0

WellFormed(r, s) ==
  /\ s = <<>> <=> r.stage \in {"new", "loading", "lost"}
  /\ s # <<>> => Head(s) = "RUN_STARTED"
  /\ IF r.stage = "ended" THEN EndsRun(s) ELSE Quiet(s)
  /\ r.stage # "running" => ~r.reasoning
  /\ r.stage = "running" => Occurrences(s, "REASONING_END") = 0
  /\ Occurrences(s, "REASONING_START") = Occurrences(s, "REASONING_END") + (IF r.reasoning THEN 1 ELSE 0)
  /\ Occurrences(s, "REASONING_START") <= 1
  /\ r.stage # "ended" => /\ Occurrences(s, "TEXT_END") = 0
                          /\ Occurrences(s, "TEXT_START") = IF r.text THEN 1 ELSE 0
  /\ r.stage = "ended" => /\ Occurrences(s, "TEXT_START") <= 1
                          /\ Occurrences(s, "RUN_FINISHED") > 0 =>
                                Occurrences(s, "TEXT_START") = Occurrences(s, "TEXT_END")

Typed == turn \in [Turns -> Turn] /\ stream \in [Turns -> Seq(Event)]
StreamInv == Typed /\ \A t \in Turns : WellFormed(turn[t], stream[t])

Marks == {"TEXT_START", "TEXT_END", "REASONING_START", "REASONING_END", "RUN_FINISHED", "RUN_ERROR"}

(* What one more event does to the counts: nothing unless it is counted.   *)
LEMMA Unmarked ==
  ASSUME NEW s \in Seq(Event), NEW x \in Event \ Marks
  PROVE  /\ Append(s, x) \in Seq(Event) /\ Append(s, x) # <<>> /\ Head(Append(s, x)) = IF s = <<>> THEN x ELSE Head(s)
         /\ \A e \in Marks : Occurrences(Append(s, x), e) = Occurrences(s, e)
<1>1. x \in Event /\ \A e \in Marks : e \in Event /\ e # x
  BY DEF Marks, Event
<1> QED  BY <1>1, Grown

LEMMA Marked ==
  ASSUME NEW s \in Seq(Event), s # <<>>, NEW x \in Marks
  PROVE  /\ Append(s, x) \in Seq(Event) /\ Append(s, x) # <<>> /\ Head(Append(s, x)) = Head(s)
         /\ Occurrences(Append(s, x), x) = Occurrences(s, x) + 1 /\ Occurrences(s, x) \in Nat
         /\ \A e \in Marks \ {x} : Occurrences(Append(s, x), e) = Occurrences(s, e)
<1>1. x \in Event /\ \A e \in Marks : e \in Event
  BY DEF Marks, Event
<1> QED  BY <1>1, Grown

LEMMA LoadWrites ==
  ASSUME NEW r \in Turn, NEW q \in Turn, NEW s \in Seq(Event), WellFormed(r, s),
         r.stage = "loading", q.stage = "running", q.text = r.text, q.reasoning = r.reasoning
  PROVE  WellFormed(q, Append(s, "RUN_STARTED"))
<1> DEFINE u == Append(s, "RUN_STARTED")
<1>1. /\ u # <<>> /\ Head(u) = "RUN_STARTED" /\ \A e \in Marks : Occurrences(u, e) = Occurrences(s, e)
  BY Unmarked DEF WellFormed, Marks, Event
<1>2. \A e \in Marks : Occurrences(s, e) = 0
  BY NoOccurrences DEF WellFormed
<1> HIDE DEF u
<1>3. \A e \in Marks : Occurrences(u, e) = 0
  BY <1>1, <1>2
<1>4. ~r.text /\ ~r.reasoning
  BY <1>2 DEF WellFormed, Marks
<1> QED  BY <1>1, <1>3, <1>4 DEF WellFormed, Quiet, Marks, u

LEMMA TextWrites ==
  ASSUME NEW r \in Turn, NEW q \in Turn, NEW s \in Seq(Event), WellFormed(r, s),
         r.stage = "running", q.stage = "running", q.text, q.reasoning = r.reasoning
  PROVE  WellFormed(q, IF r.text THEN Append(s, "TEXT") ELSE Append(Append(s, "TEXT_START"), "TEXT"))
<1>1. s # <<>> /\ "TEXT" \in Event \ Marks /\ "TEXT_START" \in Marks
  BY DEF WellFormed, Marks, Event
<1>2. CASE r.text
  <2> DEFINE u == Append(s, "TEXT")
  <2>1. u # <<>> /\ Head(u) = Head(s) /\ \A e \in Marks : Occurrences(u, e) = Occurrences(s, e)
    BY <1>1, Unmarked
  <2> HIDE DEF u
  <2>2. WellFormed(q, u)
    BY <1>1, <1>2, <2>1 DEF WellFormed, Quiet, Marks
  <2> QED  BY <1>2, <2>2 DEF u
<1>3. CASE ~r.text
  <2> DEFINE v == Append(s, "TEXT_START")
             u == Append(v, "TEXT")
  <2>1. /\ v \in Seq(Event) /\ v # <<>> /\ Head(v) = Head(s)
        /\ Occurrences(v, "TEXT_START") = Occurrences(s, "TEXT_START") + 1
        /\ \A e \in Marks \ {"TEXT_START"} : Occurrences(v, e) = Occurrences(s, e)
    BY <1>1, Marked
  <2> HIDE DEF v
  <2>2. u # <<>> /\ Head(u) = Head(v) /\ \A e \in Marks : Occurrences(u, e) = Occurrences(v, e)
    BY <1>1, <2>1, Unmarked
  <2> HIDE DEF u
  <2>3. WellFormed(q, u)
    BY <1>1, <1>3, <2>1, <2>2 DEF WellFormed, Quiet, Marks
  <2> QED  BY <1>3, <2>3 DEF u, v
<1> QED  BY <1>2, <1>3

LEMMA ReasoningWrites ==
  ASSUME NEW r \in Turn, NEW q \in Turn, NEW s \in Seq(Event), WellFormed(r, s),
         r.stage = "running", q.stage = "running", q.text = r.text, q.reasoning
  PROVE  WellFormed(q, IF r.reasoning THEN Append(s, "REASONING") ELSE Append(Append(s, "REASONING_START"), "REASONING"))
<1>1. s # <<>> /\ "REASONING" \in Event \ Marks /\ "REASONING_START" \in Marks
  BY DEF WellFormed, Marks, Event
<1>2. CASE r.reasoning
  <2> DEFINE u == Append(s, "REASONING")
  <2>1. u # <<>> /\ Head(u) = Head(s) /\ \A e \in Marks : Occurrences(u, e) = Occurrences(s, e)
    BY <1>1, Unmarked
  <2> HIDE DEF u
  <2>2. WellFormed(q, u)
    BY <1>1, <1>2, <2>1 DEF WellFormed, Quiet, Marks
  <2> QED  BY <1>2, <2>2 DEF u
<1>3. CASE ~r.reasoning
  <2> DEFINE v == Append(s, "REASONING_START")
             u == Append(v, "REASONING")
  <2>1. /\ v \in Seq(Event) /\ v # <<>> /\ Head(v) = Head(s)
        /\ Occurrences(v, "REASONING_START") = Occurrences(s, "REASONING_START") + 1
        /\ \A e \in Marks \ {"REASONING_START"} : Occurrences(v, e) = Occurrences(s, e)
    BY <1>1, Marked
  <2> HIDE DEF v
  <2>2. u # <<>> /\ Head(u) = Head(v) /\ \A e \in Marks : Occurrences(u, e) = Occurrences(v, e)
    BY <1>1, <2>1, Unmarked
  <2> HIDE DEF u
  <2>3. WellFormed(q, u)
    BY <1>1, <1>3, <2>1, <2>2 DEF WellFormed, Quiet, Marks
  <2> QED  BY <1>3, <2>3 DEF u, v
<1> QED  BY <1>2, <1>3

(* The block of reasoning is closed when run() settles.                    *)
Closed(r, s) == IF r.reasoning THEN Append(s, "REASONING_END") ELSE s

LEMMA ReasoningCloses ==
  ASSUME NEW r \in Turn, NEW s \in Seq(Event), WellFormed(r, s), r.stage = "running"
  PROVE  LET u == Closed(r, s) IN
         /\ u \in Seq(Event) /\ u # <<>> /\ Head(u) = "RUN_STARTED" /\ Quiet(u)
         /\ Occurrences(u, "REASONING_START") = Occurrences(u, "REASONING_END") /\ Occurrences(u, "REASONING_START") <= 1
         /\ Occurrences(u, "TEXT_END") = 0 /\ Occurrences(u, "TEXT_START") = IF r.text THEN 1 ELSE 0
<1> DEFINE u == Append(s, "REASONING_END")
<1>1. s # <<>> /\ "REASONING_END" \in Marks
  BY DEF WellFormed, Marks
<1>2. /\ u \in Seq(Event) /\ u # <<>> /\ Head(u) = Head(s)
      /\ Occurrences(u, "REASONING_END") = Occurrences(s, "REASONING_END") + 1
      /\ \A e \in Marks \ {"REASONING_END"} : Occurrences(u, e) = Occurrences(s, e)
  BY <1>1, Marked
<1>3. CASE r.reasoning
  <2> HIDE DEF u
  <2>1. u = Closed(r, s)
    BY <1>3 DEF Closed, u
  <2>2. /\ Head(u) = "RUN_STARTED" /\ Quiet(u)
        /\ Occurrences(u, "REASONING_START") = Occurrences(u, "REASONING_END") /\ Occurrences(u, "REASONING_START") <= 1
        /\ Occurrences(u, "TEXT_END") = 0 /\ Occurrences(u, "TEXT_START") = IF r.text THEN 1 ELSE 0
    BY <1>1, <1>2, <1>3 DEF WellFormed, Quiet, Marks
  <2> QED  BY <1>2, <2>1, <2>2
<1>4. CASE ~r.reasoning
  BY <1>1, <1>4 DEF WellFormed, Quiet, Closed
<1> QED  BY <1>3, <1>4

LEMMA RunReturnsWrites ==
  ASSUME NEW r \in Turn, NEW q \in Turn, NEW s \in Seq(Event), WellFormed(r, s),
         r.stage = "running", q.stage = "saving", q.text = r.text, ~q.reasoning
  PROVE  WellFormed(q, Closed(r, s))
<1> DEFINE u == Closed(r, s)
<1>1. /\ u # <<>> /\ Head(u) = "RUN_STARTED" /\ Quiet(u)
      /\ Occurrences(u, "REASONING_START") = Occurrences(u, "REASONING_END") /\ Occurrences(u, "REASONING_START") <= 1
      /\ Occurrences(u, "TEXT_END") = 0 /\ Occurrences(u, "TEXT_START") = IF r.text THEN 1 ELSE 0
      /\ Occurrences(u, "REASONING_END") \in Nat
  BY ReasoningCloses, OccurrencesType
<1> HIDE DEF u
<1> QED  BY <1>1 DEF WellFormed, u

LEMMA LastEvent ==
  ASSUME NEW q \in Turn, NEW s \in Seq(Event), NEW x \in {"RUN_FINISHED", "RUN_ERROR"},
         q.stage = "ended", ~q.reasoning, s # <<>>, Head(s) = "RUN_STARTED", Quiet(s),
         Occurrences(s, "REASONING_START") = Occurrences(s, "REASONING_END"), Occurrences(s, "REASONING_START") <= 1,
         Occurrences(s, "TEXT_START") <= 1,
         x = "RUN_FINISHED" => Occurrences(s, "TEXT_START") = Occurrences(s, "TEXT_END")
  PROVE  WellFormed(q, Append(s, x)) /\ (x = "RUN_ERROR" => Occurrences(Append(s, x), "RUN_FINISHED") = 0)
<1> DEFINE u == Append(s, x)
<1>1. x \in Marks /\ x \in Event /\ Final(x)
  BY DEF Marks, Event, Final
<1>2. /\ u \in Seq(Event) /\ u # <<>> /\ Head(u) = Head(s)
      /\ \A e \in Marks \ {x} : Occurrences(u, e) = Occurrences(s, e)
  BY <1>1, Marked
<1>3. EndsRun(u)
  BY <1>1, Grown DEF Quiet
<1> HIDE DEF u
<1>4. /\ Occurrences(u, "REASONING_START") = Occurrences(s, "REASONING_START")
      /\ Occurrences(u, "REASONING_END") = Occurrences(s, "REASONING_END")
      /\ Occurrences(u, "TEXT_START") = Occurrences(s, "TEXT_START")
      /\ Occurrences(u, "TEXT_END") = Occurrences(s, "TEXT_END")
      /\ x # "RUN_FINISHED" => Occurrences(u, "RUN_FINISHED") = Occurrences(s, "RUN_FINISHED")
  BY <1>2 DEF Marks
<1>5. Occurrences(s, "REASONING_END") \in Nat
  BY OccurrencesType
<1> QED  BY <1>2, <1>3, <1>4, <1>5 DEF WellFormed, Quiet, u

LEMMA RunThrowsWrites ==
  ASSUME NEW r \in Turn, NEW q \in Turn, NEW s \in Seq(Event), WellFormed(r, s),
         r.stage = "running", q.stage = "ended", ~q.reasoning
  PROVE  /\ WellFormed(q, Append(Closed(r, s), "RUN_ERROR"))
         /\ Occurrences(Append(Closed(r, s), "RUN_ERROR"), "RUN_FINISHED") = 0
<1> DEFINE u == Closed(r, s)
<1>1. /\ u \in Seq(Event) /\ u # <<>> /\ Head(u) = "RUN_STARTED" /\ Quiet(u)
      /\ Occurrences(u, "REASONING_START") = Occurrences(u, "REASONING_END") /\ Occurrences(u, "REASONING_START") <= 1
      /\ Occurrences(u, "TEXT_START") <= 1
  BY ReasoningCloses
<1> HIDE DEF u
<1>2. WellFormed(q, Append(u, "RUN_ERROR")) /\ Occurrences(Append(u, "RUN_ERROR"), "RUN_FINISHED") = 0
  BY <1>1, LastEvent
<1> QED  BY <1>2 DEF u

LEMMA SaveFailsWrites ==
  ASSUME NEW r \in Turn, NEW q \in Turn, NEW s \in Seq(Event), WellFormed(r, s),
         r.stage = "saving", q.stage = "ended", ~q.reasoning
  PROVE  WellFormed(q, Append(s, "RUN_ERROR")) /\ Occurrences(Append(s, "RUN_ERROR"), "RUN_FINISHED") = 0
<1>1. /\ s # <<>> /\ Head(s) = "RUN_STARTED" /\ Quiet(s)
      /\ Occurrences(s, "REASONING_START") = Occurrences(s, "REASONING_END") /\ Occurrences(s, "REASONING_START") <= 1
      /\ Occurrences(s, "TEXT_START") <= 1
  BY OccurrencesType DEF WellFormed
<1> QED  BY <1>1, LastEvent

(* The text that Save writes before the last event.                        *)
WithLastText(r, s) ==
  IF r.text THEN Append(s, "TEXT_END")
  ELSE IF r.message THEN Append(Append(Append(s, "TEXT_START"), "TEXT"), "TEXT_END") ELSE s

LEMMA SaveWrites ==
  ASSUME NEW r \in Turn, NEW q \in Turn, NEW s \in Seq(Event), WellFormed(r, s),
         r.stage = "saving", q.stage = "ended", ~q.reasoning, NEW x \in {"RUN_FINISHED", "RUN_ERROR"}
  PROVE  WellFormed(q, Append(WithLastText(r, s), x)) /\ WithLastText(r, s) \in Seq(Event)
<1>1. /\ s # <<>> /\ Head(s) = "RUN_STARTED" /\ Quiet(s)
      /\ Occurrences(s, "REASONING_START") = Occurrences(s, "REASONING_END") /\ Occurrences(s, "REASONING_START") <= 1
      /\ Occurrences(s, "TEXT_END") = 0 /\ Occurrences(s, "TEXT_START") = IF r.text THEN 1 ELSE 0
  BY OccurrencesType DEF WellFormed
<1> DEFINE Done(u) == /\ u \in Seq(Event) /\ u # <<>> /\ Head(u) = "RUN_STARTED" /\ Quiet(u)
                      /\ Occurrences(u, "REASONING_START") = Occurrences(u, "REASONING_END")
                      /\ Occurrences(u, "REASONING_START") <= 1
                      /\ Occurrences(u, "TEXT_START") = Occurrences(u, "TEXT_END") /\ Occurrences(u, "TEXT_START") <= 1
<1>2. "TEXT_START" \in Marks /\ "TEXT_END" \in Marks /\ "TEXT" \in Event \ Marks
  BY DEF Marks, Event
<1>3. CASE r.text
  <2> DEFINE u == Append(s, "TEXT_END")
  <2>1. /\ u \in Seq(Event) /\ u # <<>> /\ Head(u) = Head(s)
        /\ Occurrences(u, "TEXT_END") = Occurrences(s, "TEXT_END") + 1
        /\ \A e \in Marks \ {"TEXT_END"} : Occurrences(u, e) = Occurrences(s, e)
    BY <1>1, <1>2, Marked
  <2> HIDE DEF u
  <2>2. Done(u)
    BY <1>1, <1>3, <2>1 DEF Quiet, Marks
  <2> QED  BY <1>3, <2>2, LastEvent DEF u, WithLastText
<1>4. CASE ~r.text /\ r.message
  <2> DEFINE a == Append(s, "TEXT_START")
             b == Append(a, "TEXT")
             u == Append(b, "TEXT_END")
  <2>1. /\ a \in Seq(Event) /\ a # <<>> /\ Head(a) = Head(s)
        /\ Occurrences(a, "TEXT_START") = Occurrences(s, "TEXT_START") + 1
        /\ \A e \in Marks \ {"TEXT_START"} : Occurrences(a, e) = Occurrences(s, e)
    BY <1>1, <1>2, Marked
  <2> HIDE DEF a
  <2>2. /\ b \in Seq(Event) /\ b # <<>> /\ Head(b) = Head(a) /\ \A e \in Marks : Occurrences(b, e) = Occurrences(a, e)
    BY <1>2, <2>1, Unmarked
  <2> HIDE DEF b
  <2>3. /\ u \in Seq(Event) /\ u # <<>> /\ Head(u) = Head(b)
        /\ Occurrences(u, "TEXT_END") = Occurrences(b, "TEXT_END") + 1
        /\ \A e \in Marks \ {"TEXT_END"} : Occurrences(u, e) = Occurrences(b, e)
    BY <1>2, <2>2, Marked
  <2> HIDE DEF u
  <2>4. Done(u)
    BY <1>1, <1>4, <2>1, <2>2, <2>3 DEF Quiet, Marks
  <2> QED  BY <1>4, <2>4, LastEvent DEF a, b, u, WithLastText
<1>5. CASE ~r.text /\ ~r.message
  <2>1. Done(s)
    BY <1>1, <1>5
  <2> QED  BY <1>5, <2>1, LastEvent DEF WithLastText
<1> QED  BY <1>3, <1>4, <1>5

--------------------------------------------------------------------------------
(* Every step is of one turn, and leaves a well-formed stream.             *)
Owned == state \subseteq Turns /\ closed \in [Turns -> BOOLEAN] /\ aborted \in [Turns -> BOOLEAN]
Inv == Owned /\ StreamInv

Others(t) == \A u \in Turns \ {t} : turn'[u] = turn[u] /\ stream'[u] = stream[u]

LEMMA OfOneTurn ==
  ASSUME StreamInv, NEW t \in Turns, Typed', Others(t), WellFormed(turn'[t], stream'[t])
  PROVE  StreamInv'
BY DEF StreamInv, Others

LEMMA RequestStep ==
  ASSUME Inv, NEW t \in Turns, Request(t)
  PROVE  Inv' /\ Others(t) /\ stream' = stream
<1>1. Typed' /\ Others(t) /\ stream' = stream /\ Owned' /\ turn[t].stage = "new" /\ turn'[t] = [turn[t] EXCEPT !.stage = "loading"]
  BY DEF Inv, Owned, StreamInv, Request, Typed, Turn, Others
<1>2. turn[t] \in Turn /\ WellFormed(turn[t], stream[t])
  BY DEF Inv, StreamInv, Typed
<1>3. WellFormed(turn'[t], stream'[t])
  BY <1>1, <1>2 DEF WellFormed, Turn
<1> QED  BY <1>1, <1>3, OfOneTurn DEF Inv

LEMMA LoadFailsStep ==
  ASSUME Inv, NEW t \in Turns, LoadFails(t)
  PROVE  Inv' /\ Others(t) /\ stream' = stream
<1>1. Typed' /\ Others(t) /\ stream' = stream /\ Owned' /\ turn[t].stage = "loading" /\ turn'[t] = [turn[t] EXCEPT !.stage = "lost"]
  BY DEF Inv, Owned, StreamInv, LoadFails, Typed, Turn, Others
<1>2. turn[t] \in Turn /\ WellFormed(turn[t], stream[t])
  BY DEF Inv, StreamInv, Typed
<1>3. WellFormed(turn'[t], stream'[t])
  BY <1>1, <1>2 DEF WellFormed, Turn
<1> QED  BY <1>1, <1>3, OfOneTurn DEF Inv

LEMMA CloseStep ==
  ASSUME Inv, NEW t \in Turns, Close(t)
  PROVE  Inv' /\ turn' = turn /\ stream' = stream
BY DEF Inv, Owned, StreamInv, Close, Typed

(* What a step that writes gives: the turn and its stream before and after. *)
LEMMA LoadStep ==
  ASSUME Inv, NEW t \in Turns, Load(t)
  PROVE  Inv' /\ Others(t)
<1> DEFINE r == turn[t]  s == stream[t]
<1>1. r \in Turn /\ s \in Seq(Event) /\ WellFormed(r, s) /\ r.stage = "loading"
  BY DEF Inv, StreamInv, Typed, Load
<1>2. turn' = [turn EXCEPT ![t] = [r EXCEPT !.stage = "running", !.prior = state]]
      /\ stream' = [stream EXCEPT ![t] = s \o <<"RUN_STARTED">>]
  BY DEF Load, Write, Loaded
<1>3. s \o <<"RUN_STARTED">> = Append(s, "RUN_STARTED") /\ Append(s, "RUN_STARTED") \in Seq(Event)
  BY <1>1, WriteOne DEF Event
<1>4. turn'[t] \in Turn /\ turn'[t].stage = "running" /\ turn'[t].text = r.text /\ turn'[t].reasoning = r.reasoning
  BY <1>1, <1>2 DEF Inv, Owned, StreamInv, Typed, Turn
<1>5. WellFormed(turn'[t], Append(s, "RUN_STARTED"))
  BY <1>1, <1>4, LoadWrites
<1>6. Typed' /\ Others(t) /\ stream'[t] = Append(s, "RUN_STARTED") /\ Owned'
  BY <1>2, <1>3, <1>4 DEF Inv, Owned, StreamInv, Typed, Others, Load
<1> QED  BY <1>5, <1>6, OfOneTurn DEF Inv

LEMMA TextStep ==
  ASSUME Inv, NEW t \in Turns, Text(t)
  PROVE  Inv' /\ Others(t)
<1> DEFINE r == turn[t]  s == stream[t]
           u == IF r.text THEN Append(s, "TEXT") ELSE Append(Append(s, "TEXT_START"), "TEXT")
<1>1. r \in Turn /\ s \in Seq(Event) /\ WellFormed(r, s) /\ r.stage = "running"
  BY DEF Inv, StreamInv, Typed, Text, MayEmit
<1>2. turn' = [turn EXCEPT ![t] = [r EXCEPT !.text = TRUE, !.reasoning = r.reasoning]]
      /\ stream' = [stream EXCEPT ![t] = s \o (IF r.text THEN <<"TEXT">> ELSE <<"TEXT_START", "TEXT">>)]
  BY DEF Text, Write, KeepsReasoning
<1>3. s \o (IF r.text THEN <<"TEXT">> ELSE <<"TEXT_START", "TEXT">>) = u /\ u \in Seq(Event)
  BY <1>1, WriteOne, WriteTwo, AppendProperties DEF Event
<1>4. turn'[t] \in Turn /\ turn'[t].stage = "running" /\ turn'[t].text /\ turn'[t].reasoning = r.reasoning
  BY <1>1, <1>2 DEF Inv, StreamInv, Typed, Turn
<1>5. WellFormed(turn'[t], u)
  BY <1>1, <1>4, TextWrites
<1> HIDE DEF u
<1>6. Typed' /\ Others(t) /\ stream'[t] = u /\ Owned'
  BY <1>2, <1>3, <1>4 DEF Inv, Owned, StreamInv, Typed, Others, Text
<1> QED  BY <1>5, <1>6, OfOneTurn DEF Inv

LEMMA ReasoningStep ==
  ASSUME Inv, NEW t \in Turns, Reasoning(t)
  PROVE  Inv' /\ Others(t)
<1> DEFINE r == turn[t]  s == stream[t]
           u == IF r.reasoning THEN Append(s, "REASONING") ELSE Append(Append(s, "REASONING_START"), "REASONING")
<1>1. r \in Turn /\ s \in Seq(Event) /\ WellFormed(r, s) /\ r.stage = "running"
  BY DEF Inv, StreamInv, Typed, Reasoning, MayEmit
<1>2. turn' = [turn EXCEPT ![t] = [r EXCEPT !.reasoning = TRUE]]
      /\ stream' = [stream EXCEPT ![t] = s \o (IF r.reasoning THEN <<"REASONING">> ELSE <<"REASONING_START", "REASONING">>)]
  BY DEF Reasoning, Write
<1>3. s \o (IF r.reasoning THEN <<"REASONING">> ELSE <<"REASONING_START", "REASONING">>) = u /\ u \in Seq(Event)
  BY <1>1, WriteOne, WriteTwo, AppendProperties DEF Event
<1>4. turn'[t] \in Turn /\ turn'[t].stage = "running" /\ turn'[t].text = r.text /\ turn'[t].reasoning
  BY <1>1, <1>2 DEF Inv, StreamInv, Typed, Turn
<1>5. WellFormed(turn'[t], u)
  BY <1>1, <1>4, ReasoningWrites
<1> HIDE DEF u
<1>6. Typed' /\ Others(t) /\ stream'[t] = u /\ Owned'
  BY <1>2, <1>3, <1>4 DEF Inv, Owned, StreamInv, Typed, Others, Reasoning
<1> QED  BY <1>5, <1>6, OfOneTurn DEF Inv

LEMMA ClosedWritten ==
  ASSUME NEW r \in Turn, NEW s \in Seq(Event)
  PROVE  LET w == IF r.reasoning THEN <<"REASONING_END">> ELSE <<>> IN
         /\ Closed(r, s) \in Seq(Event) /\ s \o w = Closed(r, s)
         /\ s \o (w \o <<"RUN_ERROR">>) = Append(Closed(r, s), "RUN_ERROR")
         /\ Append(Closed(r, s), "RUN_ERROR") \in Seq(Event)
<1>1. CASE r.reasoning
  BY <1>1, WriteOne, WriteTwo, AppendProperties DEF Closed, Event
<1>2. CASE ~r.reasoning
  <2>1. s \o <<>> = s /\ <<>> \o <<"RUN_ERROR">> = <<"RUN_ERROR">>
    BY ConcatEmptySeq, WriteOne DEF Event
  <2>2. s \o <<"RUN_ERROR">> = Append(s, "RUN_ERROR") /\ Append(s, "RUN_ERROR") \in Seq(Event)
    BY WriteOne DEF Event
  <2> QED  BY <1>2, <2>1, <2>2 DEF Closed
<1> QED  BY <1>1, <1>2

LEMMA RunReturnsStep ==
  ASSUME Inv, NEW t \in Turns, NEW o \in {"completed", "input-required", "failed"}, NEW m \in BOOLEAN, RunReturns(t, o, m)
  PROVE  Inv' /\ Others(t)
<1> DEFINE r == turn[t]  s == stream[t]  u == Closed(r, s)
<1>1. r \in Turn /\ s \in Seq(Event) /\ WellFormed(r, s) /\ r.stage = "running"
  BY DEF Inv, StreamInv, Typed, RunReturns
<1>2. turn' = [turn EXCEPT ![t] = [r EXCEPT !.stage = "saving", !.status = o, !.message = m, !.reasoning = FALSE]]
      /\ stream' = [stream EXCEPT ![t] = s \o (IF r.reasoning THEN <<"REASONING_END">> ELSE <<>>)]
  BY DEF RunReturns, Write, EndReasoning
<1>3. s \o (IF r.reasoning THEN <<"REASONING_END">> ELSE <<>>) = u /\ u \in Seq(Event)
  BY <1>1, ClosedWritten
<1>4. turn'[t] \in Turn /\ turn'[t].stage = "saving" /\ turn'[t].text = r.text /\ ~turn'[t].reasoning
  BY <1>1, <1>2 DEF Inv, StreamInv, Typed, Turn
<1>5. WellFormed(turn'[t], u)
  BY <1>1, <1>4, RunReturnsWrites
<1> HIDE DEF u
<1>6. Typed' /\ Others(t) /\ stream'[t] = u /\ Owned'
  BY <1>2, <1>3, <1>4 DEF Inv, Owned, StreamInv, Typed, Others, RunReturns
<1> QED  BY <1>5, <1>6, OfOneTurn DEF Inv

LEMMA RunThrowsStep ==
  ASSUME Inv, NEW t \in Turns, RunThrows(t)
  PROVE  Inv' /\ Others(t) /\ ~Finished(t)'
<1> DEFINE r == turn[t]  s == stream[t]  u == Append(Closed(r, s), "RUN_ERROR")
<1>1. r \in Turn /\ s \in Seq(Event) /\ WellFormed(r, s) /\ r.stage = "running"
  BY DEF Inv, StreamInv, Typed, RunThrows
<1>2. turn' = [turn EXCEPT ![t] = [r EXCEPT !.stage = "ended", !.reasoning = FALSE]]
      /\ stream' = [stream EXCEPT ![t] = s \o ((IF r.reasoning THEN <<"REASONING_END">> ELSE <<>>) \o <<"RUN_ERROR">>)]
  BY DEF RunThrows, Write, EndReasoning, AfterCatch
<1>3. s \o ((IF r.reasoning THEN <<"REASONING_END">> ELSE <<>>) \o <<"RUN_ERROR">>) = u /\ u \in Seq(Event)
  BY <1>1, ClosedWritten
<1>4. turn'[t] \in Turn /\ turn'[t].stage = "ended" /\ ~turn'[t].reasoning
  BY <1>1, <1>2 DEF Inv, StreamInv, Typed, Turn
<1>5. WellFormed(turn'[t], u) /\ Occurrences(u, "RUN_FINISHED") = 0
  BY <1>1, <1>4, RunThrowsWrites
<1> HIDE DEF u
<1>6. Typed' /\ Others(t) /\ stream'[t] = u /\ Owned'
  BY <1>2, <1>3, <1>4 DEF Inv, Owned, StreamInv, Typed, Others, RunThrows
<1> QED  BY <1>5, <1>6, OfOneTurn DEF Inv, Finished, Count

LEMMA SaveFailsStep ==
  ASSUME Inv, NEW t \in Turns, SaveFails(t)
  PROVE  Inv' /\ Others(t) /\ ~Finished(t)'
<1> DEFINE r == turn[t]  s == stream[t]  u == Append(s, "RUN_ERROR")
<1>1. r \in Turn /\ s \in Seq(Event) /\ WellFormed(r, s) /\ r.stage = "saving"
  BY DEF Inv, StreamInv, Typed, SaveFails
<1>2. turn' = [turn EXCEPT ![t] = [r EXCEPT !.stage = "ended"]] /\ stream' = [stream EXCEPT ![t] = s \o <<"RUN_ERROR">>]
  BY DEF SaveFails, Write, AfterCatch, AfterFailedSave
<1>3. s \o <<"RUN_ERROR">> = u /\ u \in Seq(Event)
  BY <1>1, WriteOne DEF Event
<1>4. turn'[t] \in Turn /\ turn'[t].stage = "ended" /\ ~turn'[t].reasoning
  BY <1>1, <1>2 DEF Inv, StreamInv, Typed, Turn, WellFormed
<1>5. WellFormed(turn'[t], u) /\ Occurrences(u, "RUN_FINISHED") = 0
  BY <1>1, <1>4, SaveFailsWrites
<1> HIDE DEF u
<1>6. Typed' /\ Others(t) /\ stream'[t] = u /\ Owned'
  BY <1>2, <1>3, <1>4 DEF Inv, Owned, StreamInv, Typed, Others, SaveFails
<1> QED  BY <1>5, <1>6, OfOneTurn DEF Inv, Finished, Count

LEMMA SaveWritten ==
  ASSUME NEW t \in Turns, Typed, NEW x \in {"RUN_FINISHED", "RUN_ERROR"}
  PROVE  stream[t] \o (LastText(t) \o <<x>>) = Append(WithLastText(turn[t], stream[t]), x)
<1> DEFINE s == stream[t]
<1>1. s \in Seq(Event) /\ turn[t].text \in BOOLEAN /\ turn[t].message \in BOOLEAN /\ x \in Event
  BY DEF Typed, Turn, Event
<1>2. CASE turn[t].text
  BY <1>1, <1>2, WriteTwo DEF LastText, WithLastText, Event
<1>3. CASE ~turn[t].text /\ turn[t].message
  <2>1. LastText(t) = <<"TEXT_START", "TEXT", "TEXT_END">>
        /\ WithLastText(turn[t], s) = Append(Append(Append(s, "TEXT_START"), "TEXT"), "TEXT_END")
    BY <1>3 DEF LastText, WithLastText
  <2>2. "TEXT_START" \in Event /\ "TEXT" \in Event /\ "TEXT_END" \in Event
    BY DEF Event
  <2> QED  BY <1>1, <2>1, <2>2, WriteFour
<1>4. CASE ~turn[t].text /\ ~turn[t].message
  <2>1. <<>> \o <<x>> = <<x>> /\ s \o <<x>> = Append(s, x)
    BY <1>1, WriteOne, ConcatEmptySeq
  <2> QED  BY <1>4, <2>1 DEF LastText, WithLastText
<1> QED  BY <1>1, <1>2, <1>3, <1>4

LEMMA SaveStep ==
  ASSUME Inv, NEW t \in Turns, Save(t)
  PROVE  Inv' /\ Others(t)
<1> DEFINE r == turn[t]  s == stream[t]  x == IF r.status = "failed" THEN "RUN_ERROR" ELSE "RUN_FINISHED"
           u == Append(WithLastText(r, s), x)
<1>1. r \in Turn /\ s \in Seq(Event) /\ WellFormed(r, s) /\ r.stage = "saving" /\ x \in {"RUN_FINISHED", "RUN_ERROR"}
  BY DEF Inv, StreamInv, Typed, Save
<1>2. turn' = [turn EXCEPT ![t] = [r EXCEPT !.stage = "ended"]] /\ stream' = [stream EXCEPT ![t] = s \o (LastText(t) \o <<x>>)]
  BY DEF Save, Write
<1>3. s \o (LastText(t) \o <<x>>) = u
  BY <1>1, SaveWritten DEF Inv, StreamInv
<1>4. turn'[t] \in Turn /\ turn'[t].stage = "ended" /\ ~turn'[t].reasoning
  BY <1>1, <1>2 DEF Inv, StreamInv, Typed, Turn, WellFormed
<1>5. WellFormed(turn'[t], u) /\ WithLastText(r, s) \in Seq(Event)
  BY <1>1, <1>4, SaveWrites
<1>6. u \in Seq(Event)
  BY <1>1, <1>5, AppendProperties DEF Event
<1> HIDE DEF u
<1>7. Typed' /\ Others(t) /\ stream'[t] = u
  BY <1>2, <1>3, <1>4, <1>6 DEF Inv, StreamInv, Typed, Others
<1>8. Owned'
  BY <1>1 DEF Inv, Owned, Save, Turn
<1> QED  BY <1>5, <1>7, <1>8, OfOneTurn DEF Inv

LEMMA InitInv == Init => Inv
<1> SUFFICES ASSUME Init  PROVE Inv
  OBVIOUS
<1>1. Typed /\ Owned
  BY DEF Init, Typed, Owned, Turn
<1>2. \A t \in Turns : turn[t].stage = "new" /\ ~turn[t].text /\ ~turn[t].reasoning /\ stream[t] = <<>>
  BY DEF Init
<1>3. \A t \in Turns : WellFormed(turn[t], stream[t])
  BY <1>2, NoOccurrences DEF WellFormed, Quiet
<1> QED  BY <1>1, <1>3 DEF Inv, StreamInv

LEMMA StepInv == Inv /\ [Next]_vars => Inv'
<1> SUFFICES ASSUME Inv, [Next]_vars  PROVE Inv'
  OBVIOUS
<1>1. ASSUME NEW t \in Turns, Request(t) \/ Load(t) \/ LoadFails(t) \/ Close(t) \/ Text(t) \/ Reasoning(t)
  PROVE Inv'
  BY <1>1, RequestStep, LoadStep, LoadFailsStep, CloseStep, TextStep, ReasoningStep
<1>2. ASSUME NEW t \in Turns, Settles(t) \/ Save(t) \/ SaveFails(t)  PROVE Inv'
  BY <1>2, RunReturnsStep, RunThrowsStep, SaveStep, SaveFailsStep DEF Settles
<1>3. CASE UNCHANGED vars
  BY <1>3 DEF vars, Inv, Owned, StreamInv, Typed
<1> QED  BY <1>1, <1>2, <1>3 DEF Next

LEMMA Invariance == Spec => []Inv
BY InitInv, StepInv, PTL DEF Spec

LEMMA WellFormedStreams == Inv => StreamsWellFormed
<1> SUFFICES ASSUME Inv  PROVE StreamsWellFormed
  OBVIOUS
<1>1. ASSUME NEW t \in Turns
      PROVE  /\ turn[t] \in Turn /\ stream[t] \in Seq(Event) /\ WellFormed(turn[t], stream[t])
             /\ \A e : Occurrences(stream[t], e) \in Nat
             /\ \A e : Occurrences(stream[t], e) = 0 <=> \A i \in 1 .. Len(stream[t]) : stream[t][i] # e
             /\ Len(stream[t]) \in Nat /\ DOMAIN stream[t] = 1 .. Len(stream[t])
  BY OccurrencesType, LenProperties DEF Inv, StreamInv, Typed
<1>2. TypeOK
  <2>1. ASSUME NEW t \in Turns
        PROVE  turn[t].reasoning <=> Count(t, "REASONING_START") > Count(t, "REASONING_END")
    <3>1. /\ Occurrences(stream[t], "REASONING_START") =
               Occurrences(stream[t], "REASONING_END") + (IF turn[t].reasoning THEN 1 ELSE 0)
          /\ Occurrences(stream[t], "REASONING_END") \in Nat /\ turn[t].reasoning \in BOOLEAN
      BY <1>1 DEF WellFormed, Turn
    <3>2. CASE turn[t].reasoning
      BY <3>1, <3>2 DEF Count
    <3>3. CASE ~turn[t].reasoning
      BY <3>1, <3>3 DEF Count
    <3> QED  BY <3>2, <3>3
  <2> QED  BY <2>1 DEF TypeOK, Inv, StreamInv, Typed, Owned
<1>3. OneRun
  <2> SUFFICES ASSUME NEW t \in Turns
               PROVE  /\ stream[t] # << >> => Head(stream[t]) = "RUN_STARTED"
                      /\ turn[t].stage = "ended" <=> \E i \in DOMAIN stream[t] : Final(stream[t][i])
                      /\ \A i \in DOMAIN stream[t] : Final(stream[t][i]) => i = Len(stream[t])
    BY DEF OneRun
  <2>1. CASE turn[t].stage = "ended"
    BY <1>1, <2>1 DEF WellFormed, EndsRun
  <2>2. CASE turn[t].stage # "ended"
    BY <1>1, <2>2 DEF WellFormed, Quiet, Final
  <2> QED  BY <2>1, <2>2
<1>4. OneCardEach
  <2> SUFFICES ASSUME NEW t \in Turns
               PROVE  /\ Count(t, "TEXT_START") <= 1 /\ Count(t, "REASONING_START") <= 1
                      /\ turn[t].stage = "ended" => Balanced(t, "REASONING_START", "REASONING_END")
                      /\ Finished(t) => Balanced(t, "TEXT_START", "TEXT_END")
    BY DEF OneCardEach
  <2>1. CASE turn[t].stage = "ended"
    <3>1. ~turn[t].reasoning /\ Occurrences(stream[t], "REASONING_END") \in Nat
      BY <1>1, <2>1 DEF WellFormed
    <3>2. /\ Occurrences(stream[t], "REASONING_START") = Occurrences(stream[t], "REASONING_END")
          /\ Occurrences(stream[t], "REASONING_START") <= 1 /\ Occurrences(stream[t], "TEXT_START") <= 1
          /\ Occurrences(stream[t], "RUN_FINISHED") > 0 =>
                Occurrences(stream[t], "TEXT_START") = Occurrences(stream[t], "TEXT_END")
      BY <1>1, <2>1, <3>1 DEF WellFormed
    <3> QED  BY <3>2 DEF Count, Balanced, Finished
  <2>2. CASE turn[t].stage # "ended"
    BY <1>1, <2>2 DEF WellFormed, Quiet, Count, Balanced, Finished
  <2> QED  BY <2>1, <2>2
<1> QED  BY <1>2, <1>3, <1>4 DEF StreamsWellFormed

(* Whatever the handler emits, however the turn ends and wherever the store *)
(* fails, the client reads a well-formed stream with one end: agui.ts.     *)
THEOREM StreamsSafe == Spec => []StreamsWellFormed
BY Invariance, WellFormedStreams, PTL

(* A turn that has ended is not touched again; only Save reports success.  *)
LEMMA FinishedIsEnded == ASSUME Inv, NEW t \in Turns, Finished(t) PROVE turn[t].stage = "ended"
<1>1. WellFormed(turn[t], stream[t]) /\ Occurrences(stream[t], "RUN_FINISHED") > 0
  BY DEF Inv, StreamInv, Finished, Count
<1> QED  BY <1>1 DEF WellFormed, Quiet

LEMMA SaysFinished ==
  ASSUME Inv, Next, NEW t \in Turns
  PROVE  /\ Finished(t) => Finished(t)'
         /\ ~Finished(t) /\ Finished(t)' => Save(t)
<1>1. Inv'
  BY StepInv
<1>2. PICK u \in Turns : Request(u) \/ Load(u) \/ LoadFails(u) \/ Close(u) \/ Text(u) \/ Reasoning(u)
                       \/ Settles(u) \/ Save(u) \/ SaveFails(u)
  BY DEF Next
<1>3. Others(u) \/ (Close(u) /\ turn' = turn /\ stream' = stream)
  BY <1>2, RequestStep, LoadStep, LoadFailsStep, CloseStep, TextStep, ReasoningStep, RunReturnsStep, RunThrowsStep,
     SaveStep, SaveFailsStep DEF Settles
<1>4. CASE t # u \/ stream' = stream
  BY <1>3, <1>4 DEF Others, Finished, Count
<1>5. CASE t = u /\ stream' # stream
  <2>1. turn[t].stage # "ended"
    BY <1>2, <1>5, RequestStep, LoadFailsStep, CloseStep
       DEF Load, Text, Reasoning, MayEmit, Settles, RunReturns, RunThrows, Save, SaveFails
  <2>2. ~Finished(t)
    BY <2>1, FinishedIsEnded
  <2>3. ASSUME Finished(t)'  PROVE Save(t)
    <3>1. turn'[t].stage = "ended"
      <4>1. WellFormed(turn'[t], stream'[t]) /\ Occurrences(stream'[t], "RUN_FINISHED") > 0
        BY <1>1, <2>3 DEF Inv, StreamInv, Finished, Count
      <4> QED  BY <4>1 DEF WellFormed, Quiet
    <3>2. ~(Load(t) \/ Text(t) \/ Reasoning(t))
      BY <2>1, <3>1 DEF Load, Text, Reasoning, Inv, StreamInv, Typed, Turn
    <3>3. ~\E o \in {"completed", "input-required", "failed"}, m \in BOOLEAN : RunReturns(t, o, m)
      <4> SUFFICES ASSUME NEW o \in {"completed", "input-required", "failed"}, NEW m \in BOOLEAN, RunReturns(t, o, m)
                   PROVE  FALSE
        OBVIOUS
      <4>1. turn \in [Turns -> Turn]
        BY DEF Inv, StreamInv, Typed
      <4>2. turn'[t].stage = "saving"
        BY <4>1 DEF RunReturns, Turn
      <4> QED  BY <3>1, <4>2
    <3>4. ~(RunThrows(t) \/ SaveFails(t))
      BY <2>3, RunThrowsStep, SaveFailsStep
    <3> QED  BY <1>2, <1>5, <3>2, <3>3, <3>4, RequestStep, LoadFailsStep, CloseStep DEF Settles
  <2> QED  BY <2>2, <2>3
<1> QED  BY <1>4, <1>5

(* RUN_FINISHED is written only by the step that saves the state of the    *)
(* turn: the client that reads it can rely on the next turn's state.       *)
THEOREM FinishedSafe == Spec => FinishedMeansSaved
<1>1. Inv /\ [Next]_vars => [\A t \in Turns : ~Finished(t) /\ Finished(t)' => state' = turn[t].prior \cup {t}]_vars
  BY SaysFinished DEF Save
<1> QED  BY <1>1, Invariance, PTL DEF Spec, FinishedMeansSaved

--------------------------------------------------------------------------------
(* A thread whose turns do not overlap.                                    *)
Overlapped == \E u \in Turns : after[u].busy # {} /\ turn[u].stage # "new"

ApartInv ==
  /\ \A t, u \in Turns : Busy(t) /\ Busy(u) => t = u
  /\ \A t \in Turns : Finished(t) => t \in state
  /\ \A t \in Turns : turn[t].stage \in {"running", "saving"} => turn[t].prior = state
  /\ \A t \in Turns : turn[t].stage \in {"running", "saving", "ended"} => after[t].ended \subseteq turn[t].prior

ThreadInv ==
  /\ after \in [Turns -> [ended : SUBSET Turns, busy : SUBSET Turns]]
  /\ \A t, u \in Turns : u \in after[t].ended => Finished(u)
  /\ ~Overlapped => ApartInv

LEMMA ThreadInit == Init => ThreadInv
<1> SUFFICES ASSUME Init  PROVE ThreadInv
  OBVIOUS
<1>1. /\ \A t \in Turns : turn[t].stage = "new" /\ stream[t] = <<>> /\ after[t].ended = {}
      /\ after \in [Turns -> [ended : SUBSET Turns, busy : SUBSET Turns]]
  BY DEF Init
<1>2. \A t \in Turns : ~Finished(t)
  BY <1>1, NoOccurrences DEF Finished, Count
<1> QED  BY <1>1, <1>2 DEF ThreadInv, ApartInv, Busy

(* A step of a turn that is neither a request nor a save changes little.   *)
LEMMA QuietStep ==
  ASSUME Inv, ThreadInv, NEW t \in Turns, Others(t), Inv', UNCHANGED <<state, after>>,
         \A u \in Turns : (Finished(u) => Finished(u)') /\ (Finished(u)' => Finished(u)),
         turn[t].stage \in {"loading", "running", "saving"},
         turn'[t].stage # "new", turn'[t].stage # "loading",
         turn'[t].stage # "lost" => turn'[t].prior = (IF turn[t].stage = "loading" THEN state ELSE turn[t].prior)
  PROVE  ThreadInv'
<1>1. \A u \in Turns : turn'[u].stage = "new" <=> turn[u].stage = "new"
  BY DEF Others
<1>2. ~Overlapped' => ~Overlapped
  BY <1>1 DEF Overlapped
<1>3. \A u \in Turns : Busy(u)' => Busy(u)
  BY DEF Busy, Others
<1>4. ASSUME ApartInv  PROVE ApartInv'
  <2>1. ASSUME NEW u \in Turns, turn'[u].stage \in {"running", "saving"}  PROVE turn'[u].prior = state
    BY <1>4, <2>1 DEF ApartInv, Others
  <2>2. after[t].ended \subseteq state
    BY <1>4 DEF ApartInv, ThreadInv
  <2>3. ASSUME NEW u \in Turns, turn'[u].stage \in {"running", "saving", "ended"}  PROVE after[u].ended \subseteq turn'[u].prior
    BY <1>4, <2>2, <2>3 DEF ApartInv, Others
  <2> QED  BY <1>3, <1>4, <2>1, <2>3 DEF ApartInv
<1> QED  BY <1>2, <1>4 DEF ThreadInv

LEMMA RequestApart == ASSUME Inv, ThreadInv, NEW t \in Turns, Request(t) PROVE ThreadInv'
<1>1. Inv' /\ Others(t) /\ stream' = stream /\ state' = state /\ turn[t].stage = "new"
  BY RequestStep DEF Request
<1>2. turn'[t].stage = "loading"
  BY DEF Inv, StreamInv, Typed, Turn, Request
<1>3. /\ after' \in [Turns -> [ended : SUBSET Turns, busy : SUBSET Turns]]
      /\ after'[t].ended = {u \in Turns : Finished(u)} /\ after'[t].busy = {u \in Turns : Busy(u)}
      /\ \A u \in Turns \ {t} : after'[u] = after[u]
  BY DEF Request, ThreadInv
<1>4. \A u \in Turns : Finished(u)' <=> Finished(u)
  BY <1>1 DEF Finished, Count
<1>5. \A v, u \in Turns : u \in after'[v].ended => Finished(u)'
  BY <1>3, <1>4 DEF ThreadInv
<1>6. ASSUME ~Overlapped'  PROVE ApartInv'
  <2>1. ~Overlapped
    BY <1>1, <1>3, <1>6 DEF Overlapped, Others
  <2>2. \A u \in Turns : ~Busy(u)
    BY <1>2, <1>3, <1>6 DEF Overlapped
  <2>3. \A v, u \in Turns : Busy(v)' /\ Busy(u)' => v = u
    BY <1>1, <2>2 DEF Busy, Others
  <2>4. ApartInv
    BY <2>1 DEF ThreadInv
  <2> QED  BY <1>1, <1>2, <1>3, <1>4, <2>3, <2>4 DEF ApartInv, Others
<1> QED  BY <1>3, <1>5, <1>6 DEF ThreadInv

LEMMA SaveApart == ASSUME Inv, ThreadInv, Next, NEW t \in Turns, Save(t) PROVE ThreadInv'
<1>1. Inv' /\ Others(t) /\ state' = turn[t].prior \cup {t} /\ turn[t].stage = "saving" /\ after' = after
  BY SaveStep DEF Save
<1>2. turn'[t].stage = "ended" /\ turn'[t].prior = turn[t].prior
  BY DEF Inv, StreamInv, Typed, Turn, Save
<1>3. \A u \in Turns : Finished(u) => Finished(u)'
  BY SaysFinished
<1>4. \A u \in Turns \ {t} : Finished(u)' => Finished(u)
  BY <1>1 DEF Others, Finished, Count
<1>5. ASSUME ~Overlapped'  PROVE ApartInv'
  <2>1. ApartInv
    BY <1>1, <1>2, <1>5 DEF ThreadInv, Overlapped, Others
  <2>2. turn[t].prior = state /\ state' = state \cup {t}
    BY <1>1, <2>1 DEF ApartInv
  <2>3. \A u \in Turns \ {t} : ~Busy(u)
    BY <1>1, <2>1 DEF ApartInv, Busy
  <2>4. \A v, u \in Turns : Busy(v)' /\ Busy(u)' => v = u
    BY <1>1, <2>3 DEF Busy, Others
  <2>5. \A u \in Turns : turn'[u].stage \notin {"running", "saving"}
    BY <1>1, <1>2, <2>3 DEF Busy, Others
  <2>6. \A u \in Turns : Finished(u)' => u \in state'
    BY <1>4, <2>1, <2>2 DEF ApartInv
  <2>7. ASSUME NEW u \in Turns, turn'[u].stage \in {"running", "saving", "ended"}
        PROVE  after'[u].ended \subseteq turn'[u].prior
    BY <1>1, <1>2, <2>1, <2>7 DEF ApartInv, Others
  <2> QED  BY <2>4, <2>5, <2>6, <2>7 DEF ApartInv
<1> QED  BY <1>1, <1>3, <1>5 DEF ThreadInv

LEMMA ThreadStep == Inv /\ ThreadInv /\ [Next]_vars => ThreadInv'
<1> SUFFICES ASSUME Inv, ThreadInv, [Next]_vars  PROVE ThreadInv'
  OBVIOUS
<1>1. CASE UNCHANGED vars
  BY <1>1 DEF vars, ThreadInv, ApartInv, Overlapped, Busy, Finished, Count
<1>2. CASE Next
  <2>which. PICK t \in Turns : Request(t) \/ Load(t) \/ LoadFails(t) \/ Close(t) \/ Text(t) \/ Reasoning(t)
                             \/ Settles(t) \/ Save(t) \/ SaveFails(t)
    BY <1>2 DEF Next
  <2>request. CASE Request(t)
    BY <2>request, RequestApart
  <2>save. CASE Save(t)
    BY <1>2, <2>save, SaveApart
  <2>close. CASE Close(t)
    <3>1. UNCHANGED <<state, turn, stream, after>>
      BY <2>close DEF Close
    <3> QED  BY <3>1 DEF ThreadInv, ApartInv, Overlapped, Busy, Finished, Count
  <2>others. CASE Load(t) \/ LoadFails(t) \/ Text(t) \/ Reasoning(t) \/ Settles(t) \/ SaveFails(t)
    <3>1. Inv' /\ Others(t)
      BY <2>others, LoadStep, LoadFailsStep, TextStep, ReasoningStep, RunReturnsStep, RunThrowsStep, SaveFailsStep DEF Settles
    <3>2. UNCHANGED <<state, after>>
      BY <2>others DEF Load, LoadFails, Text, Reasoning, Settles, RunReturns, RunThrows, SaveFails
    <3>3. turn[t].stage \in {"loading", "running", "saving"} /\ turn \in [Turns -> Turn]
      BY <2>others DEF Inv, StreamInv, Typed, Load, LoadFails, Text, Reasoning, MayEmit, Settles, RunReturns, RunThrows, SaveFails
    <3>4. /\ turn'[t].stage # "new" /\ turn'[t].stage # "loading"
          /\ turn'[t].stage # "lost" => turn'[t].prior = (IF turn[t].stage = "loading" THEN state ELSE turn[t].prior)
          /\ turn'[t].stage = "ended" => RunThrows(t) \/ SaveFails(t)
      <4>1. CASE Load(t) \/ LoadFails(t)
        BY <3>3, <4>1 DEF Load, LoadFails, Turn, Loaded
      <4>2. CASE Text(t) \/ Reasoning(t)
        BY <3>3, <4>2 DEF Text, Reasoning, MayEmit, Turn
      <4>3. CASE RunThrows(t) \/ SaveFails(t)
        BY <3>3, <4>3 DEF RunThrows, SaveFails, Turn, AfterCatch
      <4>4. ASSUME NEW o \in {"completed", "input-required", "failed"}, NEW m \in BOOLEAN, RunReturns(t, o, m)
            PROVE  turn'[t].stage = "saving" /\ turn'[t].prior = turn[t].prior /\ turn[t].stage = "running"
        BY <3>3, <4>4 DEF RunReturns, Turn
      <4> QED  BY <2>others, <4>1, <4>2, <4>3, <4>4 DEF Settles
    <3>5. \A u \in Turns : (Finished(u) => Finished(u)') /\ (Finished(u)' => Finished(u))
      <4>1. \A u \in Turns : Finished(u)' /\ ~Finished(u) => Save(u)
        BY <1>2, SaysFinished
      <4>2. \A u \in Turns : Finished(u)' /\ ~Finished(u) => u = t
        BY <3>1 DEF Others, Finished, Count
      <4>3. Finished(t)' => Finished(t)
        <5>1. CASE RunThrows(t) \/ SaveFails(t)
          BY <5>1, RunThrowsStep, SaveFailsStep
        <5>2. CASE ~(RunThrows(t) \/ SaveFails(t))
          <6>1. turn'[t].stage # "ended" /\ WellFormed(turn'[t], stream'[t])
            BY <3>1, <3>4, <5>2 DEF Inv, StreamInv
          <6>2. Occurrences(stream'[t], "RUN_FINISHED") = 0
            BY <6>1 DEF WellFormed, Quiet
          <6> QED  BY <6>2 DEF Finished, Count
        <5> QED  BY <5>1, <5>2
      <4> QED  BY <1>2, <4>2, <4>3, SaysFinished
    <3> QED  BY <3>1, <3>2, <3>3, <3>4, <3>5, QuietStep
  <2> QED  BY <2>which, <2>request, <2>save, <2>close, <2>others
<1> QED  BY <1>1, <1>2

(* A client that waited for RUN_FINISHED finds the state of that turn in   *)
(* the next one.                                                           *)
THEOREM TurnsBuildSafe == Spec => []TurnsBuildOnEachOther
<1>1. Spec => []ThreadInv
  BY ThreadInit, ThreadStep, Invariance, PTL DEF Spec
<1>2. ThreadInv => TurnsBuildOnEachOther
  BY DEF ThreadInv, ApartInv, TurnsBuildOnEachOther, Overlap, Overlapped
<1> QED  BY <1>1, <1>2, PTL

--------------------------------------------------------------------------------
(* The artifacts.                                                          *)
AutoKey(t, result) == <<"auto", t, Artifacts!Bytes(result)>>
Keys == {<<>>} \cup OwnKeys \cup {AutoKey(t, r) : t \in PublishTurns, r \in Results}
Codes == {"none", "no_scope", "network_error", "invalid_input", "upstream_error", "created", "repeated", "conflict"}
Call == [pc : {"new", "sent", "done", "failed"}, turn : PublishTurns \cup {Artifacts!NoTurn}, result : Results \cup {<<>>},
         key : Keys, artifact : Nat, code : Codes]
Sent == [by : PublishCalls, turn : PublishTurns, result : Results, key : Keys]
Artifact == [key : Keys, turn : PublishTurns, result : Results]

KeyOf(x) == x.key \in OwnKeys \/ x.key = AutoKey(x.turn, x.result)

ArtifactsTyped == publish \in [PublishCalls -> Call] /\ travelling \subseteq Sent /\ onShelf \in Seq(Artifact)

RequestsInv ==
  \A m \in travelling : /\ KeyOf(m) /\ publish[m.by].pc # "new"
                        /\ publish[m.by].result = m.result /\ publish[m.by].key = m.key

ShelfInv ==
  /\ \A i \in DOMAIN onShelf : KeyOf(onShelf[i])
  /\ \A i, k \in DOMAIN onShelf : i # k => onShelf[i].key # onShelf[k].key

(* What the end of a call says of a shelf.                                 *)
Says(p, shelf) ==
  /\ p.pc \in {"new", "sent"} => p.code = "none"
  /\ p.code = "created" => p.pc = "done"
  /\ p.pc = "done" => p.artifact \in DOMAIN shelf /\ Artifacts!Bytes(shelf[p.artifact].result) = Artifacts!Bytes(p.result)
  /\ p.code = "conflict" =>
       p.key \in OwnKeys \/ \E i \in DOMAIN shelf : shelf[i].key = p.key /\ shelf[i].result.files # p.result.files

CallsInv ==
  /\ \A c \in PublishCalls : Says(publish[c], onShelf)
  /\ \A c \in PublishCalls : \A d \in PublishCalls \ {c} :
       publish[c].code = "created" /\ publish[d].code = "created" => publish[c].artifact # publish[d].artifact

ArtifactsInv == ArtifactsTyped /\ RequestsInv /\ ShelfInv /\ CallsInv

LEMMA ArtifactsInit == Artifacts!Init => ArtifactsInv
<1> SUFFICES ASSUME Artifacts!Init  PROVE ArtifactsInv
  OBVIOUS
<1>1. /\ publish = [c \in PublishCalls |-> [pc |-> "new", turn |-> Artifacts!NoTurn, result |-> <<>>, key |-> <<>>, artifact |-> 0, code |-> "none"]]
      /\ travelling = {} /\ onShelf = <<>>
  BY DEF Artifacts!Init, Artifacts!NoCall
<1>2. ArtifactsTyped
  BY <1>1 DEF ArtifactsTyped, Call, Keys, Codes
<1>3. RequestsInv /\ ShelfInv
  BY <1>1 DEF RequestsInv, ShelfInv
<1>4. CallsInv
  BY <1>1 DEF CallsInv, Says
<1> QED  BY <1>2, <1>3, <1>4 DEF ArtifactsInv

LEMMA PublishArtifacts ==
  ASSUME ArtifactsInv, NEW c \in PublishCalls, Artifacts!Publish(c)
  PROVE  ArtifactsInv'
<1>1. publish[c].pc = "new" /\ publish \in [PublishCalls -> Call] /\ onShelf' = onShelf /\ Says(publish[c], onShelf)
  BY DEF ArtifactsInv, ArtifactsTyped, CallsInv, Artifacts!Publish
<1>2. CASE publish' = [publish EXCEPT ![c].pc = "failed", ![c].code = "no_scope"] /\ UNCHANGED travelling
  <2> DEFINE p == [publish[c] EXCEPT !.pc = "failed", !.code = "no_scope"]
  <2>1. p \in Call /\ p.pc = "failed" /\ p.code = "no_scope"
    BY <1>1 DEF Call, Codes
  <2>2. publish' = [publish EXCEPT ![c] = p]
    BY <1>1, <1>2 DEF Call
  <2> HIDE DEF p
  <2>3. publish'[c] \in Call /\ publish'[c].pc = "failed" /\ publish'[c].code = "no_scope"
        /\ publish' \in [PublishCalls -> Call] /\ \A d \in PublishCalls \ {c} : publish'[d] = publish[d]
    BY <1>1, <2>1, <2>2
  <2>4. \A m \in travelling : m.by # c
    BY <1>1 DEF ArtifactsInv, RequestsInv
  <2>5. ArtifactsTyped' /\ RequestsInv' /\ ShelfInv'
    BY <1>1, <1>2, <2>3, <2>4 DEF ArtifactsInv, ArtifactsTyped, RequestsInv, ShelfInv, Sent
  <2>6. CallsInv'
    BY <1>1, <2>3 DEF ArtifactsInv, CallsInv, Says
  <2> QED  BY <2>5, <2>6 DEF ArtifactsInv
<1>3. CASE \E t \in PublishTurns, r \in Results : \E key \in {Artifacts!DefaultIdempotencyKey(c, t, r)} \cup OwnKeys :
             /\ publish' = [publish EXCEPT ![c] = [publish[c] EXCEPT !.pc = "sent", !.turn = t, !.result = r, !.key = key]]
             /\ travelling' = travelling \cup {[by |-> c, turn |-> t, result |-> r, key |-> key]}
  <2>0. PICK t \in PublishTurns, r \in Results : \E key \in {AutoKey(t, r)} \cup OwnKeys :
             /\ publish' = [publish EXCEPT ![c] = [publish[c] EXCEPT !.pc = "sent", !.turn = t, !.result = r, !.key = key]]
             /\ travelling' = travelling \cup {[by |-> c, turn |-> t, result |-> r, key |-> key]}
    BY <1>3 DEF Artifacts!DefaultIdempotencyKey, AutoKey
  <2>1. PICK key \in {AutoKey(t, r)} \cup OwnKeys :
             /\ publish' = [publish EXCEPT ![c] = [publish[c] EXCEPT !.pc = "sent", !.turn = t, !.result = r, !.key = key]]
             /\ travelling' = travelling \cup {[by |-> c, turn |-> t, result |-> r, key |-> key]}
    BY <2>0
  <2>2. key \in Keys
    BY DEF Keys
  <2>3. publish'[c] \in Call /\ publish'[c].pc = "sent" /\ publish'[c].code = "none" /\ publish'[c].key = key /\ publish'[c].result = r
        /\ publish' \in [PublishCalls -> Call] /\ \A d \in PublishCalls \ {c} : publish'[d] = publish[d]
    BY <1>1, <2>1, <2>2 DEF Call, Codes, Says
  <2>4. \A m \in travelling : m.by # c
    BY <1>1 DEF ArtifactsInv, RequestsInv
  <2> DEFINE n == [by |-> c, turn |-> t, result |-> r, key |-> key]
  <2>5. n \in Sent /\ KeyOf(n) /\ n.by = c /\ n.result = r /\ n.key = key
    BY <2>2 DEF Sent, KeyOf
  <2> HIDE DEF n
  <2>6. ArtifactsTyped'
    BY <1>1, <2>1, <2>3, <2>5 DEF ArtifactsInv, ArtifactsTyped, n
  <2>7. RequestsInv'
    BY <2>1, <2>3, <2>4, <2>5 DEF ArtifactsInv, ArtifactsTyped, RequestsInv, Sent, n
  <2>8. ShelfInv'
    BY <1>1 DEF ArtifactsInv, ShelfInv
  <2>9. CallsInv'
    BY <1>1, <2>3 DEF ArtifactsInv, CallsInv, Says
  <2> QED  BY <2>6, <2>7, <2>8, <2>9 DEF ArtifactsInv
<1> QED  BY <1>2, <1>3 DEF Artifacts!Publish

LEMMA NetworkErrorArtifacts ==
  ASSUME ArtifactsInv, NEW c \in PublishCalls, Artifacts!NetworkError(c)
  PROVE  ArtifactsInv'
<1>1. /\ publish[c].pc = "sent" /\ publish \in [PublishCalls -> Call] /\ UNCHANGED <<travelling, onShelf>>
      /\ publish' = [publish EXCEPT ![c].pc = "failed", ![c].code = "network_error"]
  BY DEF ArtifactsInv, ArtifactsTyped, Artifacts!NetworkError
<1>2. /\ publish'[c] \in Call /\ publish'[c].pc = "failed" /\ publish'[c].code = "network_error"
      /\ publish'[c].result = publish[c].result /\ publish'[c].key = publish[c].key
      /\ publish' \in [PublishCalls -> Call] /\ \A d \in PublishCalls \ {c} : publish'[d] = publish[d]
  BY <1>1 DEF Call, Codes
<1>3. ArtifactsTyped' /\ ShelfInv'
  BY <1>1, <1>2 DEF ArtifactsInv, ArtifactsTyped, ShelfInv
<1>4. RequestsInv'
  BY <1>1, <1>2 DEF ArtifactsInv, ArtifactsTyped, RequestsInv, Sent
<1>5. CallsInv'
  BY <1>1, <1>2 DEF ArtifactsInv, CallsInv, Says
<1> QED  BY <1>3, <1>4, <1>5 DEF ArtifactsInv

(* The answer of the service reaches a call that still waits, or nobody.   *)
LEMMA AnswerFacts ==
  ASSUME ArtifactsInv, NEW m \in travelling, NEW code \in Codes \ {"none"}, NEW a \in Nat, Artifacts!Answers(m.by, code, a)
  PROVE  /\ publish' \in [PublishCalls -> Call] /\ m.by \in PublishCalls
         /\ \A d \in PublishCalls \ {m.by} : publish'[d] = publish[d]
         /\ publish'[m.by].key = publish[m.by].key /\ publish'[m.by].result = publish[m.by].result
         /\ publish'[m.by].pc # "new"
         /\ \/ publish'[m.by] = publish[m.by]
            \/ /\ publish'[m.by].pc = (IF a = 0 THEN "failed" ELSE "done")
               /\ publish'[m.by].code = code /\ publish'[m.by].artifact = a
<1>1. m.by \in PublishCalls /\ publish[m.by].pc # "new" /\ publish \in [PublishCalls -> Call]
  BY DEF ArtifactsInv, ArtifactsTyped, RequestsInv, Sent
<1>2. CASE publish[m.by].pc # "sent"
  BY <1>1, <1>2 DEF Artifacts!Answers
<1>3. CASE publish[m.by].pc = "sent"
  BY <1>1, <1>3 DEF Artifacts!Answers, Call
<1> QED  BY <1>2, <1>3

LEMMA AnswerArtifacts ==
  ASSUME ArtifactsInv, NEW m \in travelling, NEW code \in Codes \ {"none"}, NEW a \in Nat, Artifacts!Answers(m.by, code, a),
         travelling' = travelling \ {m}, onShelf' \in Seq(Artifact), ShelfInv',
         \A i \in DOMAIN onShelf : i \in DOMAIN onShelf' /\ onShelf'[i] = onShelf[i],
         code = "created" => a # 0 /\ a \notin DOMAIN onShelf,
         a # 0 => a \in DOMAIN onShelf' /\ Artifacts!Bytes(onShelf'[a].result) = Artifacts!Bytes(m.result),
         code = "conflict" => m.key \in OwnKeys \/ \E i \in Artifacts!Under(m.key) : onShelf[i].result.files # m.result.files
  PROVE  ArtifactsInv'
<1> DEFINE c == m.by
<1>1. /\ publish' \in [PublishCalls -> Call] /\ c \in PublishCalls
      /\ \A d \in PublishCalls \ {c} : publish'[d] = publish[d]
      /\ publish'[c].key = publish[c].key /\ publish'[c].result = publish[c].result
      /\ publish'[c].pc # "new"
      /\ \/ publish'[c] = publish[c]
         \/ /\ publish'[c].pc = (IF a = 0 THEN "failed" ELSE "done")
            /\ publish'[c].code = code /\ publish'[c].artifact = a
  BY AnswerFacts
<1>2. publish[c].key = m.key /\ publish[c].result = m.result
  BY DEF ArtifactsInv, RequestsInv
<1> HIDE DEF c
<1>3. ArtifactsTyped'
  BY <1>1 DEF ArtifactsInv, ArtifactsTyped
<1>4. RequestsInv'
  BY <1>1 DEF ArtifactsInv, ArtifactsTyped, RequestsInv, Sent
<1>5. ASSUME NEW p, Says(p, onShelf)  PROVE Says(p, onShelf')
  <2>1. p.pc = "done" => /\ p.artifact \in DOMAIN onShelf'
                         /\ Artifacts!Bytes(onShelf'[p.artifact].result) = Artifacts!Bytes(p.result)
    BY <1>5 DEF Says
  <2>2. p.code = "conflict" =>
          p.key \in OwnKeys \/ \E i \in DOMAIN onShelf' : onShelf'[i].key = p.key /\ onShelf'[i].result.files # p.result.files
    BY <1>5 DEF Says
  <2> QED  BY <1>5, <2>1, <2>2 DEF Says
<1>6. \A d \in PublishCalls : Says(publish[d], onShelf)
  BY DEF ArtifactsInv, CallsInv
<1>7. CASE publish'[c] = publish[c]
  <2>1. \A d \in PublishCalls : publish'[d] = publish[d]
    BY <1>1, <1>7
  <2> QED  BY <1>3, <1>4, <1>5, <1>6, <2>1 DEF ArtifactsInv, CallsInv
<1>8. CASE /\ publish'[c].pc = (IF a = 0 THEN "failed" ELSE "done")
           /\ publish'[c].code = code /\ publish'[c].artifact = a
  <2>1. code = "conflict" =>
          m.key \in OwnKeys \/ \E i \in DOMAIN onShelf' : onShelf'[i].key = m.key /\ onShelf'[i].result.files # m.result.files
    BY DEF Artifacts!Under
  <2>2. Says(publish'[c], onShelf')
    BY <1>1, <1>2, <1>8, <2>1 DEF Says
  <2>3. \A d \in PublishCalls : Says(publish'[d], onShelf')
    BY <1>1, <1>5, <1>6, <2>2
  <2>4. ASSUME NEW d \in PublishCalls \ {c}, publish'[c].code = "created", publish'[d].code = "created"
        PROVE  publish'[c].artifact # publish'[d].artifact
    <3>1. publish[d].code = "created" /\ publish[d].artifact \in DOMAIN onShelf
      BY <1>1, <1>6, <2>4 DEF Says
    <3> QED  BY <1>1, <1>8, <2>4, <3>1
  <2>5. CallsInv'
    BY <1>1, <2>3, <2>4 DEF ArtifactsInv, CallsInv
  <2> QED  BY <1>3, <1>4, <2>5 DEF ArtifactsInv
<1> QED  BY <1>1, <1>7, <1>8

(* One content under a key of its own: the same key, the same bytes.       *)
LEMMA SameKeySameBytes ==
  ASSUME NEW x, NEW y, KeyOf(x), KeyOf(y), x.key = y.key, x.key \notin OwnKeys
  PROVE  x.turn = y.turn /\ Artifacts!Bytes(x.result) = Artifacts!Bytes(y.result)
BY DEF KeyOf, AutoKey

LEMMA SameBytesSameText ==
  ASSUME NEW r, NEW s, Artifacts!Bytes(r) = Artifacts!Bytes(s)
  PROVE  r.text = s.text
BY DEF Artifacts!Bytes

LEMMA ArrivesArtifacts ==
  ASSUME ArtifactsInv, NEW m \in travelling, Artifacts!Arrives(m)
  PROVE  ArtifactsInv'
<1>1. /\ travelling' = travelling \ {m} /\ KeyOf(m) /\ m \in Sent /\ onShelf \in Seq(Artifact) /\ ShelfInv
  BY DEF ArtifactsInv, ArtifactsTyped, RequestsInv, Artifacts!Arrives
<1>2. onShelf' = onShelf => ShelfInv' /\ onShelf' \in Seq(Artifact)
  BY <1>1 DEF ShelfInv
<1>3. CASE \E code \in {"invalid_input", "upstream_error"} : Artifacts!Answers(m.by, code, 0) /\ UNCHANGED onShelf
  <2>1. PICK code \in {"invalid_input", "upstream_error"} : Artifacts!Answers(m.by, code, 0) /\ UNCHANGED onShelf
    BY <1>3
  <2>2. code \in Codes \ {"none"}
    BY DEF Codes
  <2> QED  BY <1>1, <1>2, <2>1, <2>2, AnswerArtifacts
<1>4. CASE /\ Artifacts!Under(m.key) = {}
           /\ onShelf' = Append(onShelf, [key |-> m.key, turn |-> m.turn, result |-> m.result])
           /\ Artifacts!Answers(m.by, "created", Len(onShelf')) \/ Artifacts!Answers(m.by, "upstream_error", 0)
  <2> DEFINE new == [key |-> m.key, turn |-> m.turn, result |-> m.result]
  <2>1. new \in Artifact /\ new.key = m.key /\ new.turn = m.turn /\ new.result = m.result
    BY <1>1 DEF Artifact, Sent
  <2>2. KeyOf(new)
    BY <1>1, <2>1 DEF KeyOf
  <2>3. onShelf' = Append(onShelf, new)
    BY <1>4
  <2> HIDE DEF new
  <2>4. /\ onShelf' \in Seq(Artifact) /\ Len(onShelf') = Len(onShelf) + 1 /\ Len(onShelf) \in Nat
        /\ DOMAIN onShelf = 1 .. Len(onShelf) /\ DOMAIN onShelf' = 1 .. (Len(onShelf) + 1)
        /\ onShelf'[Len(onShelf')] = new /\ \A i \in DOMAIN onShelf : onShelf'[i] = onShelf[i]
    BY <1>1, <2>1, <2>3
  <2>5. \A i \in DOMAIN onShelf : onShelf[i].key # new.key
    BY <1>4, <2>1 DEF Artifacts!Under
  <2>6. \A i \in DOMAIN onShelf' : i \in DOMAIN onShelf \/ i = Len(onShelf')
    BY <2>4
  <2>7. ShelfInv'
    BY <1>1, <2>2, <2>4, <2>5, <2>6 DEF ShelfInv
  <2>8. /\ Len(onShelf') \in Nat /\ Len(onShelf') # 0 /\ Len(onShelf') \notin DOMAIN onShelf
        /\ Len(onShelf') \in DOMAIN onShelf' /\ \A i \in DOMAIN onShelf : i \in DOMAIN onShelf'
    BY <2>4
  <2>9. "created" \in Codes \ {"none"} /\ "upstream_error" \in Codes \ {"none"}
    BY DEF Codes
  <2>10. CASE Artifacts!Answers(m.by, "created", Len(onShelf'))
    BY <1>1, <2>1, <2>4, <2>7, <2>8, <2>9, <2>10, AnswerArtifacts
  <2>11. CASE Artifacts!Answers(m.by, "upstream_error", 0)
    BY <1>1, <2>4, <2>7, <2>8, <2>9, <2>11, AnswerArtifacts
  <2> QED  BY <1>4, <2>10, <2>11
<1>5. CASE \E i \in Artifacts!Under(m.key) :
             /\ \/ Artifacts!Bytes(onShelf[i].result) = Artifacts!Bytes(m.result) /\ Artifacts!Answers(m.by, "repeated", i)
                \/ onShelf[i].result # m.result /\ Artifacts!Answers(m.by, "conflict", 0)
             /\ UNCHANGED onShelf
  <2>1. PICK i \in Artifacts!Under(m.key) :
             /\ \/ Artifacts!Bytes(onShelf[i].result) = Artifacts!Bytes(m.result) /\ Artifacts!Answers(m.by, "repeated", i)
                \/ onShelf[i].result # m.result /\ Artifacts!Answers(m.by, "conflict", 0)
             /\ UNCHANGED onShelf
    BY <1>5
  <2>found. i \in DOMAIN onShelf /\ onShelf[i].key = m.key
    BY DEF Artifacts!Under
  <2>typed. i \in Nat /\ i # 0 /\ onShelf[i] \in Artifact
    BY <1>1, <2>found
  <2>codes. "repeated" \in Codes \ {"none"} /\ "conflict" \in Codes \ {"none"}
    BY DEF Codes
  <2>5. CASE Artifacts!Bytes(onShelf[i].result) = Artifacts!Bytes(m.result) /\ Artifacts!Answers(m.by, "repeated", i)
    BY <1>1, <1>2, <2>1, <2>found, <2>typed, <2>codes, <2>5, AnswerArtifacts
  <2>6. CASE onShelf[i].result # m.result /\ Artifacts!Answers(m.by, "conflict", 0)
    <3>1. ASSUME m.key \notin OwnKeys  PROVE onShelf[i].result.files # m.result.files
      <4>1. KeyOf(onShelf[i])
        BY <1>1, <2>found DEF ShelfInv
      <4>2. Artifacts!Bytes(onShelf[i].result) = Artifacts!Bytes(m.result)
        BY <1>1, <2>found, <3>1, <4>1, SameKeySameBytes
      <4>3. onShelf[i].result.text = m.result.text
        BY <4>2, SameBytesSameText
      <4>4. onShelf[i].result \in Results /\ m.result \in Results
        BY <1>1, <2>typed DEF Artifact, Sent
      <4> QED  BY <2>6, <4>3, <4>4, ResultsAssumption
    <3> QED  BY <1>1, <1>2, <2>1, <2>codes, <2>6, <3>1, AnswerArtifacts
  <2> QED  BY <2>1, <2>5, <2>6
<1> QED  BY <1>3, <1>4, <1>5 DEF Artifacts!Arrives

LEMMA ArtifactsStep == ArtifactsInv /\ [Artifacts!Next]_artifactVars => ArtifactsInv'
<1> SUFFICES ASSUME ArtifactsInv, [Artifacts!Next]_artifactVars  PROVE ArtifactsInv'
  OBVIOUS
<1>1. CASE UNCHANGED artifactVars
  BY <1>1 DEF artifactVars, ArtifactsInv, ArtifactsTyped, RequestsInv, ShelfInv, CallsInv
<1>2. ASSUME NEW c \in PublishCalls, Artifacts!Publish(c)  PROVE ArtifactsInv'
  BY <1>2, PublishArtifacts
<1>3. ASSUME NEW c \in PublishCalls, Artifacts!NetworkError(c)  PROVE ArtifactsInv'
  BY <1>3, NetworkErrorArtifacts
<1>4. ASSUME NEW m \in travelling, Artifacts!Arrives(m)  PROVE ArtifactsInv'
  BY <1>4, ArrivesArtifacts
<1> QED  BY <1>1, <1>2, <1>3, <1>4 DEF Artifacts!Next

LEMMA ShelfHoldsOneEach == ArtifactsInv => OneArtifactEach
<1> SUFFICES ASSUME ArtifactsInv  PROVE OneArtifactEach
  OBVIOUS
<1>1. ASSUME NEW i \in DOMAIN onShelf, NEW k \in DOMAIN onShelf, i # k,
             onShelf[i].key \notin OwnKeys, onShelf[k].key \notin OwnKeys
      PROVE  onShelf[i].turn # onShelf[k].turn \/ Artifacts!Bytes(onShelf[i].result) # Artifacts!Bytes(onShelf[k].result)
  BY <1>1 DEF ArtifactsInv, ShelfInv, KeyOf, AutoKey
<1>2. ASSUME NEW c \in PublishCalls  PROVE Says(publish[c], onShelf)
  BY DEF ArtifactsInv, CallsInv
<1>3. ASSUME NEW c \in PublishCalls
      PROVE  /\ publish[c].pc = "done" => Artifacts!Bytes(onShelf[publish[c].artifact].result) = Artifacts!Bytes(publish[c].result)
             /\ publish[c].code = "conflict" =>
                  \/ publish[c].key \in OwnKeys
                  \/ \E i \in Artifacts!Under(publish[c].key) : onShelf[i].result.files # publish[c].result.files
  BY <1>2 DEF Says, Artifacts!Under
<1> QED  BY <1>1, <1>3 DEF ArtifactsInv, CallsInv, OneArtifactEach, Artifacts!OneArtifactEach

(* However often a turn publishes a result, and whatever answers of chat-  *)
(* backend are lost or come late, it is on the shelf once and every answer *)
(* names it: publishArtifact, publish-artifact.ts.                         *)
THEOREM OneArtifactSafe == MCSpec => []OneArtifactEach
<1>1. MCInit => ArtifactsInv
  BY ArtifactsInit DEF MCInit
<1>2. ArtifactsInv /\ [MCNext]_allVars => ArtifactsInv'
  <2>1. [MCNext]_allVars => [Artifacts!Next]_artifactVars
    BY DEF MCNext, allVars, artifactVars
  <2> QED  BY <2>1, ArtifactsStep
<1>3. ArtifactsInv => OneArtifactEach
  BY ShelfHoldsOneEach
<1> QED  BY <1>1, <1>2, <1>3, PTL DEF MCSpec

--------------------------------------------------------------------------------
(* Numbers: a set has a least one, and one with a bound a greatest.        *)
LEMMA Least ==
  ASSUME NEW T, T \subseteq Nat, T # {}
  PROVE  \E x \in T : \A y \in T : x <= y
<1> DEFINE R == {ss \in Nat \X Nat : ss[1] < ss[2]}
<1>1. IsWellFoundedOn(R, Nat)
  BY NatLessThanWellFounded DEF OpToRel
<1>2. ASSUME NEW x \in Nat, NEW y \in Nat  PROVE <<x, y>> \in R <=> x < y
  OBVIOUS
<1> HIDE DEF R
<1>3. PICK x \in T : \A y \in T : ~ (<<y, x>> \in R)
  BY <1>1, WFMin
<1>4. ASSUME NEW y \in T  PROVE x <= y
  <2>1. x \in Nat /\ y \in Nat /\ ~ (<<y, x>> \in R)
    BY <1>3
  <2> QED  BY <1>2, <2>1
<1> QED  BY <1>4

LEMMA Greatest ==
  ASSUME NEW n \in Nat, NEW T, T \subseteq 1 .. n, T # {}
  PROVE  \E x \in T : \A y \in T : x >= y
<1> DEFINE U == {m \in Nat : \A x \in T : x <= m}
<1>1. n \in U
  BY DEF U
<1>2. PICK m \in U : \A k \in U : m <= k
  BY <1>1, Least
<1>3. m \in T
  <2>1. SUFFICES ASSUME m \notin T  PROVE FALSE
    OBVIOUS
  <2>2. PICK t \in T : TRUE
    OBVIOUS
  <2>3. m - 1 \in Nat /\ \A x \in T : x <= m - 1
    BY <1>2, <2>1, <2>2
  <2> QED  BY <1>2, <2>3
<1> QED  BY <1>2, <1>3

--------------------------------------------------------------------------------
(* The pool of a project.                                                  *)
Document == [series : Nat, hash : Hashes, title : Titles]
UploadPcs == {"idle", "sent", "taken", "duplicate", "answered", "failed"}
Uploading == [pc : UploadPcs, hash : Hashes \cup {"none"}, answer : Nat, own : SUBSET Nat]
LookupPcs == {"new", "searches", "found", "null", "null at limit", "lists", "listed", "error"}
Lookup == [pc : LookupPcs, page : Nat, cursor : Nat, ids : SUBSET Nat, answer : SUBSET Document]

(* One document of a content, and one of a series; numbers are given once. *)
DocumentsInv(docs, n) ==
  /\ docs \subseteq Document /\ n \in Nat /\ IsFiniteSet(docs)
  /\ \A d \in docs : d.series \in 1 .. n
  /\ \A d, e \in docs : d.hash = e.hash \/ d.series = e.series => d = e

(* What uploads of the file have made has its content.                     *)
UploadInv(u, docs, n) ==
  /\ u \in Uploading /\ u.own \subseteq 1 .. n /\ (u.pc # "idle" => u.hash \in Hashes)
  /\ \A d \in docs : d.series \in u.own => d.hash = u.hash
  /\ u.pc \in {"taken", "duplicate", "answered"} =>
       u.answer # 0 /\ u.own \cap {d.series : d \in docs} \subseteq {u.answer}

(* What the search has behind it does not have the title.                  *)
LookupInv(l, stayed, docs) ==
  /\ l \in Lookup /\ stayed \subseteq docs
  /\ l.pc = "searches" => \A d \in stayed : d.title = Sought => d.series > l.cursor
  /\ l.pc = "null" => \A d \in stayed : d.title # Sought
  /\ l.pc = "found" => \A d \in l.answer : d.title = Sought
  /\ l.pc \in {"new", "lists", "listed"} => {d.series : d \in l.answer} \subseteq l.ids
  /\ l.pc = "new" => l.answer = {} /\ l.cursor = 0

PoolInv == DocumentsInv(pool, made) /\ UploadInv(upload, pool, made) /\ LookupInv(lookup, there, pool)

LEMMA AddedDocument ==
  ASSUME NEW docs, NEW n, DocumentsInv(docs, n), NEW h \in Hashes, NEW t \in Titles, \A d \in docs : d.hash # h
  PROVE  LET d == [series |-> n + 1, hash |-> h, title |-> t] IN
         /\ d.series = n + 1 /\ d.hash = h /\ d.title = t /\ n + 1 \in Nat /\ n + 1 # 0
         /\ DocumentsInv(docs \cup {d}, n + 1) /\ \A e \in docs : e.series # n + 1
<1> DEFINE d == [series |-> n + 1, hash |-> h, title |-> t]
<1>1. d \in Document /\ d.series = n + 1 /\ d.hash = h /\ d.title = t /\ n + 1 \in Nat /\ n + 1 # 0 /\ n + 1 \in 1 .. n + 1
  BY DEF DocumentsInv, Document
<1>2. IsFiniteSet(docs \cup {d})
  BY FS_AddElement DEF DocumentsInv
<1> HIDE DEF d
<1>3. \A e \in docs : e.series \in 1 .. n + 1 /\ e.series # n + 1
  BY DEF DocumentsInv
<1>4. DocumentsInv(docs \cup {d}, n + 1)
  BY <1>1, <1>2, <1>3 DEF DocumentsInv
<1> QED  BY <1>1, <1>3, <1>4 DEF d

LEMMA UploadKept ==
  ASSUME NEW u, NEW docs, NEW n, UploadInv(u, docs, n), DocumentsInv(docs, n), NEW more, NEW m \in Nat, n <= m,
         \A d \in more : d \in docs \/ d.series \notin 1 .. n
  PROVE  UploadInv(u, more, m)
<1>1. \A d \in more : d.series \in u.own => d \in docs
  BY DEF UploadInv
<1>2. u.own \subseteq 1 .. m
  BY DEF UploadInv, DocumentsInv
<1>3. u.own \cap {d.series : d \in more} \subseteq u.own \cap {d.series : d \in docs}
  BY <1>1
<1> QED  BY <1>1, <1>2, <1>3 DEF UploadInv

LEMMA LookupKept ==
  ASSUME NEW l, NEW stayed, NEW docs, LookupInv(l, stayed, docs), NEW more
  PROVE  /\ LookupInv(l, stayed \cap more, more)
         /\ docs \subseteq more => LookupInv(l, stayed, more)
BY DEF LookupInv

(* The upload.                                                             *)
LEMMA UploadPool ==
  ASSUME PoolInv, Knowledge!Upload \/ Knowledge!Uploaded \/ Knowledge!UploadFails
  PROVE  PoolInv'
<1>0. UNCHANGED <<pool, made, lookup, there>> /\ upload \in Uploading
  BY DEF Knowledge!Upload, Knowledge!Uploaded, Knowledge!UploadFails, PoolInv, UploadInv
<1>1. CASE Knowledge!Upload
  <2>1. PICK h \in Hashes :
          upload' = [pc |-> "sent", hash |-> h, answer |-> 0, own |-> IF h = upload.hash THEN upload.own ELSE {}]
    BY <1>1 DEF Knowledge!Upload
  <2> DEFINE own == IF h = upload.hash THEN upload.own ELSE {}
  <2>2. own \subseteq upload.own /\ (h # upload.hash => own = {})
    OBVIOUS
  <2> HIDE DEF own
  <2>3. upload' \in Uploading /\ upload'.pc = "sent" /\ upload'.hash = h /\ upload'.own = own
    BY <1>0, <2>1, <2>2 DEF Uploading, UploadPcs, own
  <2>4. UploadInv(upload', pool, made)
    BY <2>2, <2>3 DEF PoolInv, UploadInv
  <2> QED  BY <1>0, <2>4 DEF PoolInv
<1>2. CASE Knowledge!Uploaded
  <2>1. upload.pc \in {"taken", "duplicate"} /\ upload' = [upload EXCEPT !.pc = "answered"]
    BY <1>2 DEF Knowledge!Uploaded, Knowledge!HasSeries
  <2>2. /\ upload' \in Uploading /\ upload'.pc = "answered" /\ upload'.hash = upload.hash
        /\ upload'.own = upload.own /\ upload'.answer = upload.answer
    BY <1>0, <2>1 DEF Uploading, UploadPcs
  <2>3. UploadInv(upload', pool, made)
    BY <2>1, <2>2 DEF PoolInv, UploadInv
  <2> QED  BY <1>0, <2>3 DEF PoolInv
<1>3. CASE Knowledge!UploadFails
  <2>1. upload.pc \in {"sent", "taken", "duplicate"} /\ upload' = [upload EXCEPT !.pc = "failed", !.answer = 0]
    BY <1>3 DEF Knowledge!UploadFails
  <2>2. upload' \in Uploading /\ upload'.pc = "failed" /\ upload'.hash = upload.hash /\ upload'.own = upload.own
    BY <1>0, <2>1 DEF Uploading, UploadPcs
  <2>3. UploadInv(upload', pool, made)
    BY <2>1, <2>2 DEF PoolInv, UploadInv
  <2> QED  BY <1>0, <2>3 DEF PoolInv
<1> QED  BY <1>1, <1>2, <1>3

(* The service takes the file, or knows its content.                       *)
LEMMA TakenPool ==
  ASSUME PoolInv, Knowledge!Taken
  PROVE  PoolInv'
<1>0. /\ upload.pc = "sent" /\ UNCHANGED <<lookup, there>> /\ upload \in Uploading /\ upload.hash \in Hashes
      /\ DocumentsInv(pool, made) /\ made \in Nat /\ upload.own \subseteq 1 .. made
  <2>1. upload.pc = "sent" /\ UNCHANGED <<lookup, there>>
    BY DEF Knowledge!Taken
  <2> QED  BY <2>1 DEF PoolInv, UploadInv, DocumentsInv
<1>1. ASSUME NEW d \in pool, d.hash = upload.hash, upload' = [upload EXCEPT !.pc = "duplicate", !.answer = d.series],
             pool' = pool, made' = made
      PROVE  PoolInv'
  <2>2. d.series \in Nat /\ d.series # 0
    BY <1>0 DEF DocumentsInv
  <2>3. /\ upload' \in Uploading /\ upload'.pc = "duplicate" /\ upload'.hash = upload.hash
        /\ upload'.own = upload.own /\ upload'.answer = d.series
    BY <1>0, <1>1, <2>2 DEF Uploading, UploadPcs
  <2>4. \A e \in pool : e.series \in upload.own => e = d
    BY <1>0, <1>1 DEF PoolInv, UploadInv, DocumentsInv
  <2>5. upload.own \cap {e.series : e \in pool} \subseteq {d.series}
    BY <2>4
  <2>6. UploadInv(upload', pool, made)
    BY <1>0, <2>2, <2>3, <2>5 DEF PoolInv, UploadInv
  <2> QED  BY <1>0, <1>1, <2>6 DEF PoolInv
<1>2. ASSUME \A d \in pool : d.hash # upload.hash, NEW t \in Titles, Knowledge!Add(upload.hash, t),
             upload' = [upload EXCEPT !.pc = "taken", !.answer = made', !.own = upload.own \cup {made'}]
      PROVE  PoolInv'
  <2> DEFINE d == [series |-> made + 1, hash |-> upload.hash, title |-> t]
  <2>2. made' = made + 1 /\ pool' = pool \cup {d}
    BY <1>2 DEF Knowledge!Add
  <2>3. /\ d.series = made + 1 /\ d.hash = upload.hash /\ made + 1 \in Nat /\ made + 1 # 0
        /\ DocumentsInv(pool \cup {d}, made + 1) /\ \A e \in pool : e.series # made + 1
    BY <1>0, <1>2, AddedDocument
  <2> HIDE DEF d
  <2>4. upload' = [upload EXCEPT !.pc = "taken", !.answer = made + 1, !.own = upload.own \cup {made + 1}]
    BY <1>2, <2>2
  <2>5. /\ upload' \in Uploading /\ upload'.pc = "taken" /\ upload'.hash = upload.hash
        /\ upload'.own = upload.own \cup {made + 1} /\ upload'.answer = made + 1
    BY <1>0, <2>3, <2>4 DEF Uploading, UploadPcs
  <2>6. \A e \in pool : e.series \notin upload.own
    BY <1>0, <1>2 DEF PoolInv, UploadInv
  <2>7. upload'.own \cap {e.series : e \in pool'} \subseteq {made + 1}
    BY <2>2, <2>3, <2>5, <2>6
  <2>8. upload'.own \subseteq 1 .. made + 1 /\ \A e \in pool' : e.series \in upload'.own => e.hash = upload'.hash
    BY <1>0, <2>2, <2>3, <2>5, <2>6
  <2>9. UploadInv(upload', pool', made')
    BY <1>0, <2>2, <2>3, <2>5, <2>7, <2>8 DEF UploadInv
  <2>10. LookupInv(lookup, there, pool')
    BY <2>2, LookupKept DEF PoolInv
  <2> QED  BY <1>0, <2>2, <2>3, <2>9, <2>10 DEF PoolInv
<1> QED  BY <1>1, <1>2 DEF Knowledge!Taken

(* Somebody else adds a document, or removes one.                          *)
LEMMA ChangePool ==
  ASSUME PoolInv, Knowledge!Change
  PROVE  PoolInv'
<1>0. /\ UNCHANGED <<upload, lookup>> /\ there' = there \cap pool'
      /\ DocumentsInv(pool, made) /\ UploadInv(upload, pool, made) /\ LookupInv(lookup, there, pool) /\ made \in Nat
  BY DEF Knowledge!Change, PoolInv, DocumentsInv
<1>1. LookupInv(lookup, there', pool')
  BY <1>0, LookupKept
<1>2. ASSUME NEW h \in Hashes \ {d.hash : d \in pool}, NEW t \in Titles, Knowledge!Add(h, t)
      PROVE  PoolInv'
  <2> DEFINE d == [series |-> made + 1, hash |-> h, title |-> t]
  <2>1. made' = made + 1 /\ pool' = pool \cup {d} /\ \A e \in pool : e.hash # h
    BY <1>2 DEF Knowledge!Add
  <2>2. /\ d.series = made + 1 /\ made + 1 \in Nat
        /\ DocumentsInv(pool \cup {d}, made + 1)
    BY <1>0, <2>1, AddedDocument
  <2> HIDE DEF d
  <2>3. \A e \in pool' : e \in pool \/ e.series \notin 1 .. made
    BY <1>0, <2>1, <2>2
  <2>4. made <= made'
    BY <1>0, <2>1
  <2>5. UploadInv(upload, pool', made')
    BY <1>0, <2>1, <2>2, <2>3, <2>4, UploadKept
  <2> QED  BY <1>0, <1>1, <2>1, <2>2, <2>5 DEF PoolInv
<1>3. ASSUME NEW d \in pool, pool' = pool \ {d}, made' = made
      PROVE  PoolInv'
  <2>1. IsFiniteSet(pool')
    BY <1>0, <1>3, FS_Subset DEF DocumentsInv
  <2>2. DocumentsInv(pool', made')
    BY <1>0, <1>3, <2>1 DEF DocumentsInv
  <2>3. UploadInv(upload, pool', made')
    BY <1>0, <1>3, UploadKept
  <2> QED  BY <1>0, <1>1, <2>2, <2>3 DEF PoolInv
<1> QED  BY <1>2, <1>3 DEF Knowledge!Change

(* The library is the same in every module.                                *)
LEMMA SameCardinality == \A S : Knowledge!Cardinality(S) = Cardinality(S)
BY DEF Knowledge!Cardinality, Cardinality

(* The pages: they follow each other without a gap.                        *)
LEMMA Pages ==
  ASSUME PoolInv, Knowledge!HasNext
  PROVE  /\ Knowledge!NextCursor \in Nat
         /\ \A d \in Knowledge!After(lookup.cursor) : d \in Knowledge!Page \/ d.series > Knowledge!NextCursor
<1> DEFINE A == Knowledge!After(lookup.cursor)
           P == Knowledge!Page
           Upto(d) == {e \in A : e.series <= d.series}
           N == {d.series : d \in P}
<1>1. /\ A \subseteq pool /\ IsFiniteSet(A) /\ P \subseteq A
      /\ \A d \in A : d \in P <=> Cardinality(Upto(d)) <= PageSize
      /\ made \in Nat /\ \A d \in A : d.series \in 1 .. made
      /\ \A d, e \in A : d.series = e.series => d = e
  <2>0. A \subseteq pool
    BY DEF Knowledge!After
  <2>1. A \subseteq pool /\ P \subseteq A /\ \A d \in A : d \in P <=> Cardinality(Upto(d)) <= PageSize
    <3>1. P = {d \in A : Cardinality(Upto(d)) <= PageSize}
      <4>1. P = {d \in A : Knowledge!Cardinality(Upto(d)) <= PageSize}
        BY Zenon DEF Knowledge!Page
      <4> HIDE DEF Upto
      <4> QED  BY <4>1, SameCardinality
    <3> HIDE DEF A, P, Upto
    <3> QED  BY <2>0, <3>1
  <2>2. IsFiniteSet(A)
    BY <2>1, FS_Subset DEF PoolInv, DocumentsInv
  <2> QED  BY <2>1, <2>2 DEF PoolInv, DocumentsInv
<1>2. Knowledge!NextCursor = CHOOSE n \in N : \A d \in P : d.series <= n
  BY DEF Knowledge!NextCursor
<1>3. A # {}
  BY <1>1 DEF Knowledge!HasNext
<1> HIDE DEF A, P
<1>4. P # {}
  <2>1. PICK d \in A : \A e \in A : d.series <= e.series
    <3> DEFINE T == {e.series : e \in A}
    <3>1. T \subseteq Nat /\ T # {}
      BY <1>1, <1>3
    <3>2. PICK n \in T : \A m \in T : n <= m
      BY <3>1, Least
    <3> QED  BY <3>2
  <2>2. Upto(d) = {d}
    BY <1>1, <2>1
  <2>3. Cardinality(Upto(d)) = 1
    BY <2>2, FS_Singleton
  <2>4. PageSize >= 1 /\ PageSize \in Nat
    BY PagesAssumption
  <2> QED  BY <1>1, <2>1, <2>3, <2>4
<1>5. N \subseteq 1 .. made /\ N # {}
  BY <1>1, <1>4
<1>6. PICK n \in N : \A m \in N : n >= m
  BY <1>1, <1>5, Greatest
<1>7. n \in Nat /\ \A d \in P : d.series <= n
  BY <1>1, <1>5, <1>6
<1> DEFINE c == Knowledge!NextCursor
<1>8. c \in N /\ \A d \in P : d.series <= c
  BY <1>2, <1>6, <1>7
<1>9. c \in Nat
  BY <1>5, <1>8
<1>10. PICK p \in P : p.series = c
  BY <1>8
<1> HIDE DEF c, N
<1>11. ASSUME NEW d \in A, d.series <= c  PROVE d \in P
  <2>1. Upto(d) \subseteq Upto(p)
    BY <1>1, <1>9, <1>10, <1>11
  <2>2. IsFiniteSet(Upto(p))
    BY <1>1, FS_Subset
  <2>3. Cardinality(Upto(d)) \in Nat /\ Cardinality(Upto(p)) \in Nat /\ Cardinality(Upto(d)) <= Cardinality(Upto(p))
    BY <2>1, <2>2, FS_Subset, FS_CardinalityType
  <2>4. Cardinality(Upto(p)) <= PageSize /\ PageSize \in Nat
    BY <1>1, <1>10, PagesAssumption
  <2> HIDE DEF Upto
  <2>5. Cardinality(Upto(d)) <= PageSize
    BY <2>3, <2>4
  <2> QED  BY <1>1, <2>5
<1>12. \A d \in A : d \in P \/ d.series > c
  BY <1>1, <1>9, <1>11
<1> QED  BY <1>9, <1>12 DEF A, P, c

LEMMA ReadsPool ==
  ASSUME PoolInv, Knowledge!ReadPage
  PROVE  PoolInv'
<1> DEFINE exact == {d \in Knowledge!Page : d.title = Sought}
<1>0. /\ lookup.pc = "searches" /\ UNCHANGED <<pool, made, upload, there>>
      /\ lookup \in Lookup /\ there \subseteq pool /\ pool \subseteq Document
      /\ \A d \in there : d.title = Sought => d.series > lookup.cursor
  BY DEF Knowledge!ReadPage, PoolInv, LookupInv, DocumentsInv
<1>1. exact \subseteq pool /\ \A d \in there : d.title = Sought => d \in Knowledge!After(lookup.cursor)
  BY <1>0 DEF Knowledge!Page, Knowledge!After
<1>2. SUFFICES LookupInv(lookup', there, pool)
  BY <1>0 DEF PoolInv
<1>3. ASSUME NEW d \in exact, lookup' = [lookup EXCEPT !.pc = "found", !.answer = {d}]
      PROVE  LookupInv(lookup', there, pool)
  <2>1. {d} \in SUBSET Document /\ d.title = Sought
    BY <1>0, <1>1
  <2> HIDE DEF exact
  <2>2. lookup' \in Lookup /\ lookup'.pc = "found" /\ lookup'.answer = {d}
    BY <1>0, <1>3, <2>1 DEF Lookup, LookupPcs
  <2> QED  BY <1>0, <2>1, <2>2 DEF LookupInv
<1>4. ASSUME exact = {}, ~Knowledge!HasNext, lookup' = [lookup EXCEPT !.pc = "null"]
      PROVE  LookupInv(lookup', there, pool)
  <2>1. \A d \in there : d.title # Sought
    BY <1>1, <1>4 DEF Knowledge!HasNext
  <2>2. lookup' \in Lookup /\ lookup'.pc = "null"
    BY <1>0, <1>4 DEF Lookup, LookupPcs
  <2> QED  BY <1>0, <2>1, <2>2 DEF LookupInv
<1>5. ASSUME lookup' = [lookup EXCEPT !.pc = "null at limit"]  PROVE LookupInv(lookup', there, pool)
  <2>1. lookup' \in Lookup /\ lookup'.pc = "null at limit"
    BY <1>0, <1>5 DEF Lookup, LookupPcs
  <2> QED  BY <1>0, <2>1 DEF LookupInv
<1>6. ASSUME exact = {}, Knowledge!HasNext, lookup' = [lookup EXCEPT !.page = lookup.page + 1, !.cursor = Knowledge!NextCursor]
      PROVE  LookupInv(lookup', there, pool)
  <2> DEFINE c == Knowledge!NextCursor
  <2>1. c \in Nat /\ \A d \in Knowledge!After(lookup.cursor) : d \in Knowledge!Page \/ d.series > c
    BY <1>6, Pages
  <2>2. \A d \in there : d.title = Sought => d.series > c
    BY <1>1, <1>6, <2>1
  <2> HIDE DEF c
  <2>3. lookup.page + 1 \in Nat
    BY <1>0 DEF Lookup
  <2>4. lookup' \in Lookup /\ lookup'.pc = "searches" /\ lookup'.cursor = c
    BY <1>0, <1>6, <2>1, <2>3 DEF Lookup, c
  <2> QED  BY <1>0, <2>2, <2>4 DEF LookupInv
<1> QED  BY <1>3, <1>4, <1>5, <1>6 DEF Knowledge!ReadPage

(* A search or a list begins; a list answers; a request fails.             *)
LEMMA ListsPool ==
  ASSUME PoolInv, Knowledge!Begin \/ Knowledge!List \/ Knowledge!LookupFails
  PROVE  PoolInv'
<1>0. /\ UNCHANGED <<pool, made, upload>> /\ lookup \in Lookup /\ there \subseteq pool /\ pool \subseteq Document
      /\ \A d \in pool : d.series \in Nat /\ d.series # 0
  <2>1. UNCHANGED <<pool, made, upload>>
    BY DEF Knowledge!Begin, Knowledge!List, Knowledge!LookupFails
  <2>2. lookup \in Lookup /\ there \subseteq pool /\ DocumentsInv(pool, made)
    BY DEF PoolInv, LookupInv
  <2>3. pool \subseteq Document /\ \A d \in pool : d.series \in Nat /\ d.series # 0
    BY <2>2 DEF DocumentsInv
  <2> QED  BY <2>1, <2>2, <2>3
<1>1. CASE Knowledge!Begin
  <2>0. there' = pool /\ lookup.pc = "new" /\ lookup.answer = {} /\ lookup.cursor = 0
    BY <1>1 DEF Knowledge!Begin, PoolInv, LookupInv
  <2>1. CASE lookup' = [lookup EXCEPT !.pc = "searches"]
    <3>1. lookup' \in Lookup /\ lookup'.pc = "searches" /\ lookup'.cursor = 0
      BY <1>0, <2>0, <2>1 DEF Lookup, LookupPcs
    <3>2. \A d \in pool : d.series > 0
      BY <1>0
    <3>3. LookupInv(lookup', pool, pool)
      BY <3>1, <3>2 DEF LookupInv
    <3> QED  BY <1>0, <2>0, <3>3 DEF PoolInv
  <2>2. ASSUME NEW ids \in SUBSET (1 .. MaxDocuments), lookup' = [lookup EXCEPT !.pc = Knowledge!ListBegins(ids), !.ids = ids]
        PROVE  PoolInv'
    <3> DEFINE begun == Knowledge!ListBegins(ids)
    <3>1. begun \in {"listed", "error", "lists"}
      BY DEF Knowledge!ListBegins
    <3>2. ids \in SUBSET Nat
      OBVIOUS
    <3> HIDE DEF begun
    <3>3. lookup' = [lookup EXCEPT !.pc = begun, !.ids = ids]
      BY <2>2 DEF begun
    <3>4. lookup' \in Lookup /\ lookup'.pc = begun /\ lookup'.answer = {}
      BY <1>0, <2>0, <3>1, <3>2, <3>3 DEF Lookup, LookupPcs
    <3>5. LookupInv(lookup', pool, pool)
      BY <3>1, <3>4 DEF LookupInv
    <3> QED  BY <1>0, <2>0, <3>5 DEF PoolInv
  <2> QED  BY <1>1, <2>1, <2>2 DEF Knowledge!Begin
<1>2. CASE Knowledge!List
  <2>0. UNCHANGED there /\ lookup.pc = "lists"
    BY <1>2 DEF Knowledge!List
  <2>1. PICK rows \in SUBSET pool : lookup' = [lookup EXCEPT !.pc = "listed", !.answer = {d \in rows : d.series \in lookup.ids}]
    BY <1>2 DEF Knowledge!List, Knowledge!Page, Knowledge!After
  <2> DEFINE given == {d \in rows : d.series \in lookup.ids}
  <2>2. given \in SUBSET Document /\ {d.series : d \in given} \subseteq lookup.ids
    BY <1>0
  <2> HIDE DEF given
  <2>3. lookup' \in Lookup /\ lookup'.pc = "listed" /\ lookup'.answer = given /\ lookup'.ids = lookup.ids
    BY <1>0, <2>1, <2>2 DEF Lookup, LookupPcs, given
  <2>4. LookupInv(lookup', there, pool)
    BY <1>0, <2>2, <2>3 DEF LookupInv
  <2> QED  BY <1>0, <2>0, <2>4 DEF PoolInv
<1>3. CASE Knowledge!LookupFails
  <2>1. lookup' = [lookup EXCEPT !.pc = "error"] /\ UNCHANGED there
    BY <1>3 DEF Knowledge!LookupFails
  <2>2. lookup' \in Lookup /\ lookup'.pc = "error"
    BY <1>0, <2>1 DEF Lookup, LookupPcs
  <2>3. LookupInv(lookup', there, pool)
    BY <1>0, <2>2 DEF LookupInv
  <2> QED  BY <1>0, <2>1, <2>3 DEF PoolInv
<1> QED  BY <1>1, <1>2, <1>3

LEMMA PoolStep == PoolInv /\ [Knowledge!Next]_knowledgeVars => PoolInv'
<1> SUFFICES ASSUME PoolInv, [Knowledge!Next]_knowledgeVars  PROVE PoolInv'
  OBVIOUS
<1>1. CASE UNCHANGED knowledgeVars
  BY <1>1 DEF knowledgeVars, PoolInv
<1>2. CASE Knowledge!Next
  BY <1>2, UploadPool, TakenPool, ChangePool, ReadsPool, ListsPool DEF Knowledge!Next
<1> QED  BY <1>1, <1>2

LEMMA PoolInit == Knowledge!Init => PoolInv
<1> SUFFICES ASSUME Knowledge!Init  PROVE PoolInv
  OBVIOUS
<1>1. pool = {} /\ made = 0 /\ there = {} /\ upload = [pc |-> "idle", hash |-> "none", answer |-> 0, own |-> {}]
      /\ lookup = [pc |-> "new", page |-> 0, cursor |-> 0, ids |-> {}, answer |-> {}]
  BY DEF Knowledge!Init, Knowledge!Idle
<1>2. DocumentsInv({}, 0)
  BY FS_EmptySet DEF DocumentsInv
<1>3. upload \in Uploading /\ upload.pc = "idle"
  BY <1>1 DEF Uploading, UploadPcs
<1>4. UploadInv(upload, {}, 0)
  BY <1>1, <1>3 DEF UploadInv
<1>5. lookup \in Lookup /\ lookup.pc = "new" /\ lookup.cursor = 0 /\ lookup.answer = {}
  BY <1>1 DEF Lookup, LookupPcs
<1>6. LookupInv(lookup, {}, {})
  BY <1>5 DEF LookupInv
<1> QED  BY <1>1, <1>2, <1>4, <1>6 DEF PoolInv

LEMMA PoolAnswers == PoolInv => AnswersAreExact
<1> SUFFICES ASSUME PoolInv  PROVE AnswersAreExact
  OBVIOUS
<1>1. Knowledge!RepeatedUploadsAgree
  BY DEF PoolInv, UploadInv, Knowledge!RepeatedUploadsAgree
<1>2. Knowledge!SearchesAreExact
  BY DEF PoolInv, LookupInv, Knowledge!SearchesAreExact
<1> QED  BY <1>1, <1>2 DEF AnswersAreExact, Knowledge!AnswersAreExact

(* A file that is uploaded again gets the document it has, and a search    *)
(* that gives up before its limit has missed nothing, whoever changes the  *)
(* pool between two requests: project-pool.ts.                             *)
THEOREM PoolSafe == MCSpec => []AnswersAreExact
<1>1. MCInit => PoolInv
  BY PoolInit DEF MCInit
<1>2. PoolInv /\ [MCNext]_allVars => PoolInv'
  <2>1. [MCNext]_allVars => [Knowledge!Next]_knowledgeVars
    BY DEF MCNext, allVars, knowledgeVars
  <2> QED  BY <2>1, PoolStep
<1> QED  BY <1>1, <1>2, PoolAnswers, PTL DEF MCSpec

--------------------------------------------------------------------------------
(* What a turn says, from the request to the answer.  A sequence, of       *)
(* whatever.                                                               *)
IsSeq(s) == s \in Seq({s[i] : i \in DOMAIN s})

Task(status, message, left, artifacts) ==
  [status |-> status, message |-> message, state |-> left, artifacts |-> artifacts]

(* A task, and what becomes of one by the events of a turn.                *)
IsTask(task) ==
  /\ task = Task(task.status, task.message, task.state, task.artifacts)
  /\ task.artifacts = [a \in DOMAIN task.artifacts |-> task.artifacts[a]]

(* The artifacts that the deltas of a turn make.                           *)
Made(deltas) ==
  [a \in IF deltas = <<>> THEN {} ELSE {Exchange!Answer} |-> [i \in DOMAIN deltas |-> Exchange!Text(deltas[i])]]

(* A task while a turn works, over what it was before, and after its end.  *)
Under(base, held) == Task("working", <<>>, base.state, Exchange!Over(held, base.artifacts))

Ended(base, held, full) ==
  Task(full.status, full.message, IF full.state # None THEN full.state ELSE base.state,
       Exchange!Over(full.artifacts, Exchange!Over(held, base.artifacts)))

(* The store and the caller, who sees a task of its own from the beginning. *)
Both(one, other, streams, deltas) ==
  [stored |-> one, relay |-> [task |-> IF streams THEN other ELSE Exchange!NoTask, deltas |-> IF streams THEN deltas ELSE <<>>]]

Fresh(prior, streams) == Both(prior, Exchange!NoTask, streams, <<>>)
Going(prior, streams, held, deltas) == Both(Under(prior, held), Under(Exchange!NoTask, held), streams, deltas)
Running(prior, started, streams, held, deltas) ==
  IF started THEN Going(prior, streams, held, deltas) ELSE Fresh(prior, streams)

Done(prior, streams, held, deltas, full) ==
  Both(Ended(prior, held, full), Ended(Exchange!NoTask, held, full), streams, deltas)

(* One event at both.                                                      *)
TakeIn(x, e, streams) ==
  [stored |-> Exchange!Apply(x.stored, e), relay |-> IF streams THEN Exchange!Drain(x.relay, e) ELSE x.relay]

(* What they know, and the task that the turn under way ends with.         *)
Known == [stored |-> stored, relay |-> relay]
Full == Exchange!Cleared(Exchange!ToTask(said.n, said.result, said.input.catalogs, legacyCompat), said.prior, said.deltas # <<>>)

IsProgress(e) ==
  \/ e.case = "artifactUpdate" /\ e.id = Exchange!Answer
  \/ e = Exchange!TaskEvent(Exchange!WorkingTask)
  \/ e = Exchange!StatusUpdate(Exchange!WorkingTask)

(* A task without results.                                                 *)
Open(task) == DOMAIN task.artifacts \subseteq {Exchange!Form, Exchange!Answer}

--------------------------------------------------------------------------------
(* What filters keep.  The ranks of numbers are 1, 2 and so on, without a gap. *)
LEMMA RanksAreOnto ==
  ASSUME NEW n \in Nat, NEW I \in SUBSET (1 .. n)
  PROVE  /\ IsFiniteSet(I) /\ Cardinality(I) \in Nat
         /\ \A i \in I : Rank(i, I) \in 1 .. Cardinality(I)
         /\ \A i, j \in I : i < j => Rank(i, I) < Rank(j, I)
         /\ \A k \in 1 .. Cardinality(I) : \E i \in I : Rank(i, I) = k
<1> DEFINE c == Cardinality(I)
           Upto(i) == {j \in I : j <= i}
           spot == [i \in I |-> Cardinality(Upto(i))]
<1>1. IsFiniteSet(I) /\ c \in Nat
  <2>1. IsFiniteSet(1 .. n)
    BY FS_Interval
  <2> QED  BY <2>1, FS_Subset, FS_CardinalityType
<1>2. ASSUME NEW i \in I  PROVE IsFiniteSet(Upto(i)) /\ spot[i] \in 1 .. c /\ spot[i] = Cardinality(Upto(i))
  <2>1. Upto(i) \in SUBSET I /\ i \in Upto(i)
    OBVIOUS
  <2> HIDE DEF Upto
  <2>2. IsFiniteSet(Upto(i)) /\ Cardinality(Upto(i)) <= c
    BY <1>1, <2>1, FS_Subset
  <2>3. Cardinality(Upto(i)) \in Nat /\ Cardinality(Upto(i)) # 0
    BY <2>1, <2>2, FS_CardinalityType, FS_EmptySet
  <2> QED  BY <1>1, <2>2, <2>3
<1>3. ASSUME NEW i \in I, NEW j \in I, i < j  PROVE spot[i] < spot[j]
  <2>1. Upto(i) \in SUBSET Upto(j) /\ j \in Upto(j) /\ j \notin Upto(i)
    <3>1. \A l \in I : l \in Int
      OBVIOUS
    <3>2. \A l \in I : l <= i => l <= j
      BY <1>3, <3>1
    <3>3. Upto(i) \in SUBSET Upto(j)
      BY <3>2
    <3>4. i \in Int /\ j \in Int
      BY <3>1
    <3>5. j <= j /\ ~(j <= i)
      BY <1>3, <3>4
    <3> QED  BY <3>3, <3>5
  <2> HIDE DEF Upto
  <2>2. Cardinality(Upto(i)) <= Cardinality(Upto(j)) /\ Cardinality(Upto(i)) # Cardinality(Upto(j))
    BY <1>2, <2>1, FS_Subset
  <2>3. spot[i] \in Nat /\ spot[j] \in Nat
    BY <1>2
  <2> HIDE DEF spot
  <2> QED  BY <1>2, <2>2, <2>3
<1>4. \A i \in I : Rank(i, I) = spot[i]
  BY DEF Rank
<1> HIDE DEF Upto
<1>5. spot \in [I -> 1 .. c]
  BY <1>2
<1> HIDE DEF spot
<1>6. \A i, j \in I : spot[i] = spot[j] => i = j
  <2>1. SUFFICES ASSUME NEW i \in I, NEW j \in I, spot[i] = spot[j], i # j  PROVE FALSE
    OBVIOUS
  <2>2. spot[i] < spot[j] \/ spot[j] < spot[i]
    BY <1>3, <2>1
  <2> QED  BY <1>5, <2>1, <2>2
<1>7. \A k \in 1 .. c : \E i \in I : spot[i] = k
  <2>1. SUFFICES ASSUME NEW k \in 1 .. c, \A i \in I : spot[i] # k  PROVE FALSE
    OBVIOUS
  <2> DEFINE D == 1 .. c
  <2>2. Cardinality(D) = c /\ IsFiniteSet(D) /\ k \in D
    BY <1>1, FS_Interval
  <2>3. spot \in [I -> D \ {k}]
    BY <1>5, <2>1
  <2> HIDE DEF D
  <2>4. IsFiniteSet(D \ {k}) /\ Cardinality(D \ {k}) < c
    BY <1>1, <2>2, FS_RemoveElement
  <2>5. \E i, j \in I : i # j /\ spot[i] = spot[j]
    BY <1>1, <2>3, <2>4, FS_PigeonHole
  <2> QED  BY <1>6, <2>5
<1> QED  BY <1>1, <1>3, <1>4, <1>5, <1>7

(* What is picked is picked from the positions one by one, in their order. *)
Places(I) == \E n \in Nat : I \in SUBSET (1 .. n)

Picks(p, s, I) ==
  /\ p \in [1 .. Cardinality(I) -> I]
  /\ \A k, l \in 1 .. Cardinality(I) : k < l => p[k] < p[l]
  /\ \A i \in I : \E k \in 1 .. Cardinality(I) : p[k] = i
  /\ Pick(s, I) = [k \in 1 .. Cardinality(I) |-> s[p[k]]]
  /\ Cardinality(I) \in Nat

LEMMA PickFacts ==
  ASSUME NEW I, Places(I), NEW s
  PROVE  \E p : Picks(p, s, I)
<1> PICK n \in Nat : I \in SUBSET (1 .. n)
  BY DEF Places
<1> DEFINE c == Cardinality(I)
           p == [k \in 1 .. c |-> CHOOSE i \in I : Rank(i, I) = k]
<1>1. /\ c \in Nat /\ \A i \in I : Rank(i, I) \in 1 .. c
      /\ \A i, j \in I : i < j => Rank(i, I) < Rank(j, I)
      /\ \A k \in 1 .. c : \E i \in I : Rank(i, I) = k
  BY RanksAreOnto
<1>2. \A k \in 1 .. c : p[k] \in I /\ Rank(p[k], I) = k
  BY <1>1
<1>3. p \in [1 .. c -> I]
  BY <1>2
<1>4. Pick(s, I) = [k \in 1 .. c |-> s[p[k]]]
  BY DEF Pick
<1> HIDE DEF p, c
<1>0. \A i \in I : i \in Int
  OBVIOUS
<1>5. ASSUME NEW k \in 1 .. c, NEW l \in 1 .. c, k < l  PROVE p[k] < p[l]
  <2>0. p[k] \in I /\ p[l] \in I /\ Rank(p[k], I) = k /\ Rank(p[l], I) = l
    BY <1>2
  <2>1. p[k] \in Int /\ p[l] \in Int
    BY <1>0, <2>0
  <2>3. k \in Int /\ l \in Int
    BY <1>1
  <2>2. ~(p[l] < p[k]) /\ p[l] # p[k]
    BY <1>1, <1>5, <2>0, <2>1, <2>3
  <2> QED  BY <2>1, <2>2
<1>6. ASSUME NEW i \in I  PROVE \E k \in 1 .. c : p[k] = i
  <2> DEFINE k == Rank(i, I)
  <2>1. k \in 1 .. c /\ p[k] \in I /\ Rank(p[k], I) = k
    BY <1>1, <1>2
  <2>2. p[k] = i
    <3>1. p[k] \in Int /\ i \in Int
      BY <1>0, <2>1
    <3>2. k \in Int /\ Rank(i, I) = k
      BY <1>1
    <3> HIDE DEF k
    <3>3. p[k] < i => k < k
      BY <1>1, <2>1, <3>2
    <3>4. i < p[k] => k < k
      BY <1>1, <2>1, <3>2
    <3> QED  BY <3>1, <3>2, <3>3, <3>4
  <2> QED  BY <2>1, <2>2
<1>7. Picks(p, s, I)
  BY <1>1, <1>3, <1>4, <1>5, <1>6 DEF c, Picks
<1> QED  BY <1>7

LEMMA PickedSame == \A s, I : Exchange!Pick(s, I) = Pick(s, I)
BY Zenon DEF Exchange!Pick, Exchange!Rank, Exchange!Cardinality, Pick, Rank, Cardinality

LEMMA RankedSame == \A i, I : Exchange!Rank(i, I) = Rank(i, I)
BY Zenon DEF Exchange!Rank, Exchange!Cardinality, Rank, Cardinality

LEMMA PickNone == \A s : Exchange!Pick(s, {}) = <<>>
<1> SUFFICES ASSUME NEW s  PROVE Pick(s, {}) = <<>>
  BY PickedSame
<1>1. Cardinality({}) = 0
  BY FS_EmptySet
<1> QED  BY <1>1 DEF Pick

LEMMA PickOne ==
  ASSUME NEW n \in Nat, NEW i \in 1 .. n, NEW s
  PROVE  Exchange!Pick(s, {i}) = <<s[i]>>
<1>1. {j \in {i} : j <= i} = {i} /\ Cardinality({i}) = 1
  BY FS_Singleton
<1>2. Rank(i, {i}) = 1
  BY <1>1 DEF Rank
<1>3. (CHOOSE j \in {i} : Rank(j, {i}) = 1) = i
  BY <1>2
<1>4. Pick(s, {i}) = [k \in 1 .. 1 |-> s[CHOOSE j \in {i} : Rank(j, {i}) = k]]
  BY <1>1 DEF Pick
<1>5. \A k \in 1 .. 1 : k = 1
  OBVIOUS
<1>6. Pick(s, {i}) = [k \in 1 .. 1 |-> s[i]]
  BY <1>3, <1>4, <1>5
<1>7. [k \in 1 .. 1 |-> s[i]] = <<s[i]>>
  OBVIOUS
<1> QED  BY <1>6, <1>7, PickedSame

(* All of a sequence is the sequence.                                      *)
LEMMA PickAll ==
  ASSUME NEW n \in Nat, NEW s, s = [i \in 1 .. n |-> s[i]]
  PROVE  Exchange!Pick(s, 1 .. n) = s
<1> DEFINE I == 1 .. n
<1>1. Cardinality(I) = n
  BY FS_Interval
<1>2. ASSUME NEW i \in I  PROVE Rank(i, I) = i
  <2>1. {j \in I : j <= i} = 1 .. i
    OBVIOUS
  <2>2. Cardinality(1 .. i) = i
    BY FS_Interval
  <2> QED  BY <2>1, <2>2 DEF Rank
<1> HIDE DEF I
<1>3. \A k \in I : (CHOOSE i \in I : Rank(i, I) = k) = k
  BY <1>2
<1>4. Pick(s, I) = [k \in 1 .. n |-> s[CHOOSE i \in I : Rank(i, I) = k]]
  BY <1>1 DEF Pick
<1>5. Pick(s, I) = [k \in I |-> s[CHOOSE i \in I : Rank(i, I) = k]]
  BY <1>4 DEF I
<1>6. Pick(s, I) = [k \in I |-> s[k]]
  BY <1>3, <1>5
<1> QED  BY <1>6, PickedSame DEF I

(* Of the positions with a property, the least.                            *)
LEMMA FirstIs ==
  ASSUME NEW T, T \subseteq Nat, T # {}
  PROVE  Exchange!Min(T) \in T
<1>1. \E x \in T : \A y \in T : x <= y
  BY Least
<1> QED  BY <1>1 DEF Exchange!Min

(* Pieces put together of which at most one is not empty.                  *)
LEMMA FlattenOne ==
  ASSUME NEW n \in Nat, NEW k \in 1 .. n, NEW S, NEW s \in Seq(Seq(S)), Len(s) = n,
         \A i \in 1 .. n : i # k => s[i] = <<>>
  PROVE  Exchange!FlattenSeq(s) = s[k]
<1> DEFINE Grows(f) == f = [i \in 1 .. n |-> IF i = 1 THEN s[i] ELSE f[i - 1] \o s[i]]
           whole == [i \in 1 .. n |-> IF i < k THEN <<>> ELSE s[k]]
           summed == CHOOSE f : Grows(f)
<1>0. k \in Int /\ n # 0 /\ (\A i \in 1 .. n : i \in Int /\ s[i] \in Seq(S)) /\ s[k] \in Seq(S)
  OBVIOUS
<1>0a. \A x \in Seq(S) : <<>> \o x = x /\ x \o <<>> = x
  OBVIOUS
<1>1. Grows(whole)
  <2>1. ASSUME NEW i \in 1 .. n
        PROVE whole[i] = IF i = 1 THEN s[i] ELSE whole[i - 1] \o s[i]
    <3>1. CASE i = 1
      <4>1. CASE i = k
        BY <3>1, <4>1
      <4>2. CASE i # k
        <5>1. i < k /\ s[i] = <<>>
          BY <3>1, <4>2, <1>0
        <5> QED  BY <3>1, <5>1
      <4> QED  BY <4>1, <4>2
    <3>2. CASE i # 1
      <4>0. i - 1 \in 1 .. n
        BY <3>2
      <4>1. CASE i < k
        <5>1. i - 1 < k /\ s[i] = <<>> /\ ~ (k < i)
          BY <4>1, <1>0
        <5>2. whole[i] = <<>> /\ whole[i - 1] = <<>>
          BY <4>0, <4>1, <5>1
        <5>3. <<>> \o <<>> = <<>>
          OBVIOUS
        <5> QED  BY <3>2, <5>1, <5>2, <5>3
      <4>2. CASE i = k
        <5>1. i - 1 < k /\ ~ (i < k)
          BY <4>2, <1>0
        <5>2. whole[i] = s[k] /\ whole[i - 1] = <<>>
          BY <4>0, <5>1
        <5> QED  BY <3>2, <4>2, <5>2, <1>0, <1>0a
      <4>3. CASE i > k
        <5>1. ~ (i - 1 < k) /\ ~ (i < k) /\ i # k
          BY <4>3, <1>0
        <5>2. whole[i] = s[k] /\ whole[i - 1] = s[k] /\ s[i] = <<>>
          BY <4>0, <5>1
        <5> HIDE DEF whole
        <5> QED  BY <3>2, <5>2, <1>0, <1>0a
      <4> QED  BY <4>1, <4>2, <4>3, <1>0
    <3> QED  BY <3>1, <3>2
  <2>2. whole = [i \in 1 .. n |-> whole[i]]
    OBVIOUS
  <2> HIDE DEF whole
  <2> QED  BY <2>1, <2>2
<1>2. Grows(summed)
  <2> HIDE DEF whole
  <2>1. \E f : Grows(f)
    BY <1>1
  <2> HIDE DEF Grows
  <2> QED  BY <2>1
<1>3. Exchange!FlattenSeq(s) = summed[n]
  BY <1>0 DEF Exchange!FlattenSeq
<1>4. whole[n] = s[k]
  BY <1>0
<1>5. ASSUME summed[n] # whole[n]  PROVE FALSE
  <2> DEFINE T == {i \in 1 .. n : summed[i] # whole[i]}
  <2>0. n \in 1 .. n
    BY <1>0
  <2>1. T \subseteq Nat /\ T # {}
    <3> HIDE DEF whole, summed
    <3>1. n \in T
      BY <1>5, <2>0
    <3> QED  BY <3>1
  <2>2. PICK i \in T : \A j \in T : i <= j
    BY <2>1, Least
  <2>3. i \in 1 .. n /\ summed[i] # whole[i]
    OBVIOUS
  <2>4. i # 1 => i - 1 \in 1 .. n /\ i - 1 \notin T
    <3> HIDE DEF T
    <3>1. i \in Int /\ ~ (i <= i - 1) /\ (i # 1 => i - 1 \in 1 .. n)
      BY <2>3
    <3> QED  BY <2>2, <3>1
  <2> HIDE DEF whole, summed
  <2>5. i # 1 => summed[i - 1] = whole[i - 1]
    BY <2>4
  <2>6. whole[i] = IF i = 1 THEN s[i] ELSE whole[i - 1] \o s[i]
    BY <1>1, <2>3
  <2>7. summed[i] = IF i = 1 THEN s[i] ELSE summed[i - 1] \o s[i]
    BY <1>2, <2>3
  <2> QED  BY <2>3, <2>5, <2>6, <2>7
<1> QED  BY <1>3, <1>4, <1>5

LEMMA IsSeqFacts ==
  ASSUME NEW s, IsSeq(s)
  PROVE  Len(s) \in Nat /\ DOMAIN s = 1 .. Len(s) /\ s = [i \in 1 .. Len(s) |-> s[i]]
<1> DEFINE S == {s[i] : i \in DOMAIN s}
<1>1. s \in Seq(S)
  BY DEF IsSeq
<1> HIDE DEF S
<1> QED  BY <1>1

LEMMA SeqIsSeq == ASSUME NEW S, NEW s \in Seq(S)  PROVE IsSeq(s)
<1> DEFINE V == {s[i] : i \in DOMAIN s}
<1>1. Len(s) \in Nat /\ DOMAIN s = 1 .. Len(s) /\ s = [i \in 1 .. Len(s) |-> s[i]]
  OBVIOUS
<1>2. \A i \in 1 .. Len(s) : s[i] \in V
  BY <1>1
<1> HIDE DEF V
<1>3. s \in Seq(V)
  BY <1>1, <1>2
<1> QED  BY <1>3 DEF IsSeq, V

LEMMA JoinFacts ==
  ASSUME NEW s, NEW t, IsSeq(s), IsSeq(t)
  PROVE  /\ IsSeq(s \o t) /\ Len(s \o t) = Len(s) + Len(t)
         /\ \A i \in 1 .. Len(s) : (s \o t)[i] = s[i]
         /\ \A i \in 1 .. Len(t) : (s \o t)[Len(s) + i] = t[i]
<1> DEFINE S == {s[i] : i \in DOMAIN s}
           T == {t[i] : i \in DOMAIN t}
           U == S \cup T
<1>1. s \in Seq(S) /\ t \in Seq(T)
  BY DEF IsSeq
<1>2. Len(s) \in Nat /\ Len(t) \in Nat
  BY IsSeqFacts
<1> HIDE DEF S, T
<1>3. s \in Seq(U) /\ t \in Seq(U)
  BY <1>1
<1> HIDE DEF U
<1>4. s \o t \in Seq(U) /\ Len(s \o t) = Len(s) + Len(t)
  BY <1>3
<1>5. IsSeq(s \o t)
  BY <1>4, SeqIsSeq
<1>6. \A i \in 1 .. Len(s) : (s \o t)[i] = s[i]
  BY <1>3
<1>7. \A i \in 1 .. Len(t) : (s \o t)[Len(s) + i] = t[i]
  BY <1>2, <1>3
<1> QED  BY <1>4, <1>5, <1>6, <1>7

LEMMA PopFacts ==
  ASSUME NEW s, IsSeq(s), s # <<>>
  PROVE  /\ IsSeq(Tail(s)) /\ Len(Tail(s)) = Len(s) - 1 /\ Len(s) # 0 /\ Head(s) = s[1]
         /\ \A i \in 1 .. Len(s) - 1 : Tail(s)[i] = s[i + 1]
<1> DEFINE S == {s[i] : i \in DOMAIN s}
<1>1. s \in Seq(S)
  BY DEF IsSeq
<1> HIDE DEF S
<1>2. Tail(s) \in Seq(S) /\ Len(Tail(s)) = Len(s) - 1 /\ Len(s) # 0 /\ Head(s) = s[1]
  BY <1>1
<1>3. \A i \in 1 .. Len(s) - 1 : Tail(s)[i] = s[i + 1]
  BY <1>1
<1> QED  BY <1>2, <1>3, SeqIsSeq

--------------------------------------------------------------------------------
(* What becomes of the store and the caller by the events of a bus.        *)
Leads(x, b, y, streams) ==
  \E f : f[0] = x /\ f[Len(b)] = y /\ \A i \in 1 .. Len(b) : f[i] = TakeIn(f[i - 1], b[i], streams)

LEMMA LeadsNone == \A x, y, streams : Leads(x, <<>>, y, streams) <=> x = y
<1> SUFFICES ASSUME NEW x, NEW y, NEW streams  PROVE Leads(x, <<>>, y, streams) <=> x = y
  OBVIOUS
<1>1. ASSUME x = y  PROVE Leads(x, <<>>, y, streams)
  <2> DEFINE f == [i \in {0} |-> x]
  <2>1. f[0] = x /\ f[Len(<<>>)] = y /\ \A i \in 1 .. Len(<<>>) : f[i] = TakeIn(f[i - 1], <<>>[i], streams)
    BY <1>1
  <2> HIDE DEF f
  <2> QED  BY <2>1 DEF Leads
<1>2. ASSUME Leads(x, <<>>, y, streams)  PROVE x = y
  BY <1>2 DEF Leads
<1> QED  BY <1>1, <1>2

LEMMA LeadsOne ==
  ASSUME NEW x, NEW e, NEW streams
  PROVE  Leads(x, <<e>>, TakeIn(x, e, streams), streams)
<1> DEFINE z == TakeIn(x, e, streams)
           f == [i \in {0, 1} |-> IF i = 0 THEN x ELSE z]
<1>1. f[0] = x /\ f[1] = z
  OBVIOUS
<1> HIDE DEF f
<1>2. \A i \in 1 .. 1 : f[i] = TakeIn(f[i - 1], <<e>>[i], streams)
  BY <1>1
<1> HIDE DEF z
<1>3. Len(<<e>>) = 1
  OBVIOUS
<1>4. Leads(x, <<e>>, z, streams)
  BY <1>1, <1>2, <1>3 DEF Leads
<1> QED  BY <1>4 DEF z

LEMMA LeadsPop ==
  ASSUME NEW x, NEW b, NEW y, NEW streams, IsSeq(b), b # <<>>, Leads(x, b, y, streams)
  PROVE  Leads(TakeIn(x, Head(b), streams), Tail(b), y, streams)
<1>1. PICK f : f[0] = x /\ f[Len(b)] = y /\ \A i \in 1 .. Len(b) : f[i] = TakeIn(f[i - 1], b[i], streams)
  BY DEF Leads
<1>2. /\ Len(b) \in Nat /\ Len(b) # 0 /\ Len(Tail(b)) = Len(b) - 1 /\ Head(b) = b[1]
      /\ \A i \in 1 .. Len(b) - 1 : Tail(b)[i] = b[i + 1]
  BY PopFacts, IsSeqFacts
<1> DEFINE g == [i \in 0 .. Len(b) - 1 |-> f[i + 1]]
<1>3. g[0] = f[1] /\ g[Len(b) - 1] = f[Len(b)]
  BY <1>2
<1>4. f[1] = TakeIn(x, Head(b), streams)
  <2>1. 1 \in 1 .. Len(b) /\ 1 - 1 = 0
    BY <1>2
  <2> QED  BY <1>1, <1>2, <2>1
<1>5. ASSUME NEW i \in 1 .. Len(b) - 1  PROVE g[i] = TakeIn(g[i - 1], Tail(b)[i], streams)
  <2>1. i + 1 \in 1 .. Len(b) /\ (i + 1) - 1 = i /\ i - 1 \in 0 .. Len(b) - 1 /\ (i - 1) + 1 = i /\ i \in 0 .. Len(b) - 1
    BY <1>2
  <2>2. g[i] = f[i + 1] /\ g[i - 1] = f[i]
    BY <2>1
  <2> HIDE DEF g
  <2>3. f[i + 1] = TakeIn(f[i], b[i + 1], streams)
    BY <1>1, <2>1
  <2> QED  BY <1>2, <2>2, <2>3
<1> HIDE DEF g
<1> QED  BY <1>1, <1>2, <1>3, <1>4, <1>5 DEF Leads

LEMMA LeadsJoin ==
  ASSUME NEW x, NEW b, NEW y, NEW c, NEW z, NEW streams, IsSeq(b), IsSeq(c),
         Leads(x, b, y, streams), Leads(y, c, z, streams)
  PROVE  Leads(x, b \o c, z, streams)
<1> DEFINE m == Len(b)
           n == Len(c)
<1>1. PICK f : f[0] = x /\ f[m] = y /\ \A i \in 1 .. m : f[i] = TakeIn(f[i - 1], b[i], streams)
  BY DEF Leads
<1>2. PICK g : g[0] = y /\ g[n] = z /\ \A i \in 1 .. n : g[i] = TakeIn(g[i - 1], c[i], streams)
  BY DEF Leads
<1>3. /\ m \in Nat /\ n \in Nat /\ Len(b \o c) = m + n
      /\ \A i \in 1 .. m : (b \o c)[i] = b[i]
      /\ \A i \in 1 .. n : (b \o c)[m + i] = c[i]
  BY JoinFacts, IsSeqFacts
<1> HIDE DEF m, n
<1> DEFINE h == [i \in 0 .. m + n |-> IF i <= m THEN f[i] ELSE g[i - m]]
<1>4. \A i \in 0 .. m : h[i] = f[i]
  BY <1>3
<1>5. \A i \in 0 .. n : h[m + i] = g[i]
  <2>1. SUFFICES ASSUME NEW i \in 0 .. n  PROVE h[m + i] = g[i]
    OBVIOUS
  <2>2. m + i \in 0 .. m + n /\ (m + i) - m = i /\ (m + i <= m <=> i = 0) /\ m + 0 = m
    BY <1>3
  <2> QED  BY <1>1, <1>2, <2>2
<1>6. 0 \in 0 .. m /\ n \in 0 .. n
  BY <1>3
<1> HIDE DEF h
<1>7. h[0] = x /\ h[m + n] = z
  BY <1>1, <1>2, <1>4, <1>5, <1>6
<1>8. ASSUME NEW i \in 1 .. m + n  PROVE h[i] = TakeIn(h[i - 1], (b \o c)[i], streams)
  <2>1. CASE i \in 1 .. m
    <3>1. i \in 0 .. m /\ i - 1 \in 0 .. m
      BY <2>1, <1>3
    <3> QED  BY <1>1, <1>3, <1>4, <2>1, <3>1
  <2>2. CASE ~ (i \in 1 .. m)
    <3>1. i - m \in 1 .. n /\ i = m + (i - m) /\ i - m \in 0 .. n /\ (i - m) - 1 \in 0 .. n
          /\ i - 1 = m + ((i - m) - 1)
      BY <2>2, <1>3
    <3> DEFINE j == i - m
    <3> HIDE DEF j
    <3>2. j \in 1 .. n /\ i = m + j /\ j \in 0 .. n /\ j - 1 \in 0 .. n /\ i - 1 = m + (j - 1)
      BY <3>1 DEF j
    <3>3. h[i] = g[j] /\ h[i - 1] = g[j - 1] /\ (b \o c)[i] = c[j]
      BY <1>3, <1>5, <3>2
    <3> QED  BY <1>2, <3>2, <3>3
  <2> QED  BY <2>1, <2>2
<1> QED  BY <1>3, <1>7, <1>8 DEF Leads

--------------------------------------------------------------------------------
(* Artifacts over others.                                                  *)
IsFcn(f) == f = [a \in DOMAIN f |-> f[a]]
One(a, parts) == [x \in {a} |-> parts]

LEMMA OverTwice ==
  ASSUME NEW f, NEW g, NEW h, NEW in, in = Exchange!Over(g, h), NEW out, out = Exchange!Over(f, g),
         NEW l, l = Exchange!Over(f, in), NEW r, r = Exchange!Over(out, h)
  PROVE  l = r
<1> DEFINE D == DOMAIN f \cup DOMAIN g \cup DOMAIN h
<1>1. /\ DOMAIN in = DOMAIN g \cup DOMAIN h
      /\ \A a \in DOMAIN g \cup DOMAIN h : in[a] = IF a \in DOMAIN g THEN g[a] ELSE h[a]
  BY DEF Exchange!Over, IsFcn
<1>2. /\ DOMAIN out = DOMAIN f \cup DOMAIN g
      /\ \A a \in DOMAIN f \cup DOMAIN g : out[a] = IF a \in DOMAIN f THEN f[a] ELSE g[a]
  BY DEF Exchange!Over, IsFcn
<1>3. /\ DOMAIN l = DOMAIN f \cup DOMAIN in /\ IsFcn(l)
      /\ \A a \in DOMAIN f \cup DOMAIN in : l[a] = IF a \in DOMAIN f THEN f[a] ELSE in[a]
  BY DEF Exchange!Over, IsFcn
<1>4. /\ DOMAIN r = DOMAIN out \cup DOMAIN h /\ IsFcn(r)
      /\ \A a \in DOMAIN out \cup DOMAIN h : r[a] = IF a \in DOMAIN out THEN out[a] ELSE h[a]
  BY DEF Exchange!Over, IsFcn
<1>5. DOMAIN l = D /\ DOMAIN r = D /\ \A a \in D : l[a] = r[a]
  BY <1>1, <1>2, <1>3, <1>4
<1>6. l = [a \in D |-> l[a]] /\ r = [a \in D |-> r[a]]
  BY <1>3, <1>4, <1>5 DEF IsFcn
<1> QED  BY <1>5, <1>6

LEMMA OverOver ==
  ASSUME NEW f, NEW g, NEW h
  PROVE  Exchange!Over(f, Exchange!Over(g, h)) = Exchange!Over(Exchange!Over(f, g), h)
BY OverTwice

LEMMA OverNothing ==
  ASSUME NEW f, IsFcn(f), NEW e, DOMAIN e = {}
  PROVE  Exchange!Over(e, f) = f /\ Exchange!Over(f, e) = f
BY DEF Exchange!Over, IsFcn

(* What comes over it replaces it.                                         *)
LEMMA OverCovers ==
  ASSUME NEW f, IsFcn(f), NEW g, DOMAIN g \subseteq DOMAIN f
  PROVE  Exchange!Over(f, g) = f
<1>1. DOMAIN f \cup DOMAIN g = DOMAIN f
  OBVIOUS
<1> QED  BY <1>1 DEF Exchange!Over, IsFcn

LEMMA MadeFacts ==
  ASSUME NEW deltas
  PROVE  /\ IsFcn(Made(deltas)) /\ (deltas = <<>> => DOMAIN Made(deltas) = {})
         /\ deltas # <<>> => Made(deltas) = One(Exchange!Answer, [i \in DOMAIN deltas |-> Exchange!Text(deltas[i])])
BY DEF Made, IsFcn, One

--------------------------------------------------------------------------------
(* One event at the store.                                                 *)
Part(append, A, a) == IF append = TRUE /\ a \in DOMAIN A THEN A[a] ELSE <<>>
State(full, left) == IF full.state # None THEN full.state ELSE left

LEMMA TaskFacts ==
  ASSUME NEW s, NEW m, NEW st, NEW A
  PROVE  /\ Task(s, m, st, A).status = s /\ Task(s, m, st, A).message = m
         /\ Task(s, m, st, A).state = st /\ Task(s, m, st, A).artifacts = A
BY DEF Task

LEMMA ArtifactApplied ==
  ASSUME NEW s, NEW m, NEW st, NEW A, NEW a, NEW parts, NEW append \in BOOLEAN
  PROVE  Exchange!Apply(Task(s, m, st, A), Exchange!ArtifactUpdate(a, parts, append))
           = Task(s, m, st, Exchange!Over(One(a, Part(append, A, a) \o parts), A))
<1> DEFINE e == Exchange!ArtifactUpdate(a, parts, append)
           task == Task(s, m, st, A)
           held == Part(append, A, a) \o parts
<1>1. e.case = "artifactUpdate" /\ e.id = a /\ e.parts = parts /\ e.append = append
  BY DEF Exchange!ArtifactUpdate
<1> HIDE DEF e
<1>2. Exchange!Apply(task, e) = Exchange!ApplyArtifact(task, e)
  BY <1>1 DEF Exchange!Apply
<1>3. task.artifacts = A
  BY TaskFacts
<1> HIDE DEF task
<1>4. (IF e.append THEN Exchange!ArtifactParts(task, e.id) ELSE <<>>) \o e.parts = held
  BY <1>1, <1>3 DEF Exchange!ArtifactParts, Part
<1> HIDE DEF held
<1>5. Exchange!ApplyArtifact(task, e) = [task EXCEPT !.artifacts = Exchange!Over(One(a, held), A)]
  <2>1. Exchange!ApplyArtifact(task, e)
          = [task EXCEPT !.artifacts =
               Exchange!Over([x \in {e.id} |-> (IF e.append THEN Exchange!ArtifactParts(task, e.id) ELSE <<>>) \o e.parts],
                             task.artifacts)]
    BY Zenon DEF Exchange!ApplyArtifact
  <2>2. [x \in {e.id} |-> (IF e.append THEN Exchange!ArtifactParts(task, e.id) ELSE <<>>) \o e.parts] = One(a, held)
    BY <1>1, <1>4, Zenon DEF One
  <2> QED  BY <1>3, <2>1, <2>2, Zenon
<1>6. [task EXCEPT !.artifacts = Exchange!Over(One(a, held), A)] = Task(s, m, st, Exchange!Over(One(a, held), A))
  BY DEF task, Task
<1> QED  BY <1>2, <1>5, <1>6 DEF e, held, task

LEMMA StatusTaken ==
  ASSUME NEW s, NEW m, NEW st, NEW A, NEW u
  PROVE  Exchange!ApplyStatus(Task(s, m, st, A), u) = Task(u.status, u.message, State(u, st), A)
<1> DEFINE task == Task(s, m, st, A)
           z == State(u, st)
           x == u.status
           y == u.message
<1>1. Exchange!ApplyStatus(task, u) = [task EXCEPT !.status = x, !.message = y,
                                                  !.state = IF u.state # None THEN u.state ELSE task.state]
  BY Zenon DEF Exchange!ApplyStatus
<1>2. (IF u.state # None THEN u.state ELSE task.state) = z
  BY TaskFacts DEF State
<1>3. Exchange!ApplyStatus(task, u) = [task EXCEPT !.status = x, !.message = y, !.state = z]
  BY <1>1, <1>2, Zenon
<1> HIDE DEF z, x, y
<1>4. Exchange!ApplyStatus(task, u) = Task(x, y, z, A)
  <2> DEFINE q == Exchange!ApplyStatus(task, u)
  <2>1. q.status = x /\ q.message = y /\ q.state = z /\ q.artifacts = A
    BY <1>3 DEF Task
  <2>2. q = [a \in {"status", "message", "state", "artifacts"} |-> q[a]]
    BY <1>3 DEF Task
  <2> HIDE DEF q
  <2>3. q = Task(q.status, q.message, q.state, q.artifacts)
    BY <2>2 DEF Task
  <2>4. q = Task(x, y, z, A)
    BY <2>1, <2>3
  <2> QED  BY <2>4 DEF q
<1> QED  BY <1>4 DEF x, y, z

LEMMA StatusApplied ==
  ASSUME NEW s, NEW m, NEW st, NEW A, NEW full
  PROVE  Exchange!Apply(Task(s, m, st, A), Exchange!StatusUpdate(full))
           = Task(full.status, full.message, State(full, st), A)
<1> DEFINE task == Task(s, m, st, A)
           u == [status |-> full.status, message |-> full.message, state |-> full.state]
           e == Exchange!StatusUpdate(full)
<1>1. e.case = "statusUpdate" /\ e.task = u
  BY DEF Exchange!StatusUpdate
<1>2. u.status = full.status /\ u.message = full.message /\ State(u, st) = State(full, st)
  BY DEF State
<1> HIDE DEF e, u
<1>3. Exchange!Apply(task, e) = Exchange!ApplyStatus(task, u)
  BY <1>1 DEF Exchange!Apply
<1>4. Exchange!ApplyStatus(task, u) = Task(u.status, u.message, State(u, st), A)
  BY StatusTaken
<1> QED  BY <1>2, <1>3, <1>4 DEF e

LEMMA TaskApplied ==
  ASSUME NEW s, NEW m, NEW st, NEW A, NEW full
  PROVE  Exchange!Apply(Task(s, m, st, A), Exchange!TaskEvent(full))
           = Task(full.status, full.message, State(full, st), Exchange!Over(full.artifacts, A))
<1> DEFINE e == Exchange!TaskEvent(full)
           now == Exchange!ApplyStatus(Task(s, m, st, A), full)
<1>1. e.case = "task" /\ e.task = full
  BY DEF Exchange!TaskEvent
<1> HIDE DEF e
<1>2. Exchange!Apply(Task(s, m, st, A), e) = [now EXCEPT !.artifacts = Exchange!Over(full.artifacts, now.artifacts)]
  BY <1>1, Zenon DEF Exchange!Apply
<1>3. now = Task(full.status, full.message, State(full, st), A)
  BY StatusTaken
<1> HIDE DEF now
<1>4. [now EXCEPT !.artifacts = Exchange!Over(full.artifacts, now.artifacts)]
        = Task(full.status, full.message, State(full, st), Exchange!Over(full.artifacts, A))
  BY <1>3 DEF Task
<1> QED  BY <1>2, <1>4 DEF e

(* One event at both ends.                                                 *)
Heard(task, e) ==
  IF e.case = "task" THEN e.task ELSE IF task = Exchange!NoTask THEN task ELSE Exchange!Apply(task, e)

LEMMA BothTaken ==
  ASSUME NEW one, NEW other, NEW streams \in BOOLEAN, NEW deltas, NEW e
  PROVE  TakeIn(Both(one, other, streams, deltas), e, streams)
           = Both(Exchange!Apply(one, e), Heard(other, e), streams, deltas \o Exchange!Forwarded(e))
<1> DEFINE x == Both(one, other, streams, deltas)
           sum == deltas \o Exchange!Forwarded(e)
           next == Exchange!Apply(one, e)
           heard == Heard(other, e)
           y == Both(next, heard, streams, sum)
           seen == [task |-> other, deltas |-> deltas]
<1>1. Exchange!Drain(seen, e) = [task |-> heard, deltas |-> sum]
  BY DEF Exchange!Drain, Heard
<1>2. Exchange!Apply(one, e) = next
  OBVIOUS
<1> HIDE DEF sum, next, heard
<1>3. /\ x.stored = one /\ y.stored = next
      /\ streams => x.relay = seen /\ y.relay = [task |-> heard, deltas |-> sum]
      /\ ~streams => x.relay = y.relay
      /\ y = [stored |-> y.stored, relay |-> y.relay]
  BY DEF Both
<1> HIDE DEF x, y, seen
<1>4. TakeIn(x, e, streams) = y
  BY <1>1, <1>2, <1>3 DEF TakeIn
<1> QED  BY <1>4 DEF x, y, sum, next, heard

LEMMA NotNothing == \A s, m, st, A : s # "none" => Task(s, m, st, A) # Exchange!NoTask
<1> SUFFICES ASSUME NEW s, NEW m, NEW st, NEW A, s # "none"  PROVE Task(s, m, st, A) # Exchange!NoTask
  OBVIOUS
<1>1. Task(s, m, st, A).status = s /\ Exchange!NoTask.status = "none"
  BY DEF Task, Exchange!NoTask
<1> QED  BY <1>1

LEMMA Cases ==
  /\ \A a, parts, append : Exchange!ArtifactUpdate(a, parts, append).case = "artifactUpdate"
  /\ \A full : Exchange!TaskEvent(full).case = "task" /\ Exchange!TaskEvent(full).task = full
               /\ Exchange!Forwarded(Exchange!TaskEvent(full)) = <<>>
  /\ \A full : Exchange!StatusUpdate(full).case = "statusUpdate" /\ Exchange!Forwarded(Exchange!StatusUpdate(full)) = <<>>
BY DEF Exchange!Forwarded, Exchange!TaskEvent, Exchange!StatusUpdate, Exchange!ArtifactUpdate

InHand(append, held, a) == append = TRUE => a \in DOMAIN held

(* An artifact comes over what the turn gave before.                       *)
LEMMA ArtifactUnder ==
  ASSUME NEW base, NEW held, NEW a, NEW parts, NEW append \in BOOLEAN, InHand(append, held, a)
  PROVE  Exchange!Apply(Under(base, held), Exchange!ArtifactUpdate(a, parts, append))
           = Under(base, Exchange!Over(One(a, Part(append, held, a) \o parts), held))
<1> DEFINE A == Exchange!Over(held, base.artifacts)
           new == One(a, Part(append, held, a) \o parts)
<1>1. Part(append, A, a) = Part(append, held, a)
  BY DEF Part, Exchange!Over, InHand
<1> HIDE DEF A
<1>2. Exchange!Apply(Task("working", <<>>, base.state, A), Exchange!ArtifactUpdate(a, parts, append))
        = Task("working", <<>>, base.state, Exchange!Over(new, A))
  BY <1>1, ArtifactApplied
<1> HIDE DEF new
<1>3. Exchange!Over(new, A) = Exchange!Over(Exchange!Over(new, held), base.artifacts)
  BY OverOver DEF A
<1> QED  BY <1>2, <1>3 DEF Under, new, A

LEMMA ArtifactTaken ==
  ASSUME NEW prior, NEW streams \in BOOLEAN, NEW held, NEW deltas, NEW a, NEW parts, NEW append \in BOOLEAN,
         InHand(append, held, a)
  PROVE  TakeIn(Going(prior, streams, held, deltas), Exchange!ArtifactUpdate(a, parts, append), streams)
           = Going(prior, streams, Exchange!Over(One(a, Part(append, held, a) \o parts), held),
                     deltas \o Exchange!Forwarded(Exchange!ArtifactUpdate(a, parts, append)))
<1> DEFINE new == Exchange!Over(One(a, Part(append, held, a) \o parts), held)
           e == Exchange!ArtifactUpdate(a, parts, append)
<1>1. /\ Exchange!Apply(Under(prior, held), e) = Under(prior, new)
      /\ Exchange!Apply(Under(Exchange!NoTask, held), e) = Under(Exchange!NoTask, new)
  <2>1. Exchange!Apply(Under(prior, held), e) = Under(prior, new)
    BY ArtifactUnder
  <2>2. Exchange!Apply(Under(Exchange!NoTask, held), e) = Under(Exchange!NoTask, new)
    BY ArtifactUnder
  <2> QED  BY <2>1, <2>2
<1>2. e.case = "artifactUpdate"
  BY Cases
<1>3. Under(Exchange!NoTask, held) # Exchange!NoTask
  BY NotNothing DEF Under
<1> HIDE DEF new, e
<1>4. Heard(Under(Exchange!NoTask, held), e) = Under(Exchange!NoTask, new)
  BY <1>1, <1>2, <1>3 DEF Heard
<1>5. TakeIn(Both(Under(prior, held), Under(Exchange!NoTask, held), streams, deltas), e, streams)
        = Both(Under(prior, new), Under(Exchange!NoTask, new), streams, deltas \o Exchange!Forwarded(e))
  BY <1>1, <1>4, BothTaken
<1> QED  BY <1>5 DEF Going, new, e

LEMMA NothingFacts ==
  /\ Exchange!NoTask = Task("none", <<>>, None, Exchange!NoArtifacts)
  /\ Exchange!NoTask.state = None /\ Exchange!NoTask.artifacts = Exchange!NoArtifacts
  /\ DOMAIN Exchange!NoArtifacts = {} /\ IsFcn(Exchange!NoArtifacts)
BY DEF Exchange!NoTask, Task, Exchange!NoArtifacts, IsFcn

(* A first event which is the task.                                        *)
LEMMA TaskTaken ==
  ASSUME NEW prior, IsTask(prior), NEW streams \in BOOLEAN, NEW full
  PROVE  TakeIn(Fresh(prior, streams), Exchange!TaskEvent(full), streams)
           = Both(Task(full.status, full.message, State(full, prior.state), Exchange!Over(full.artifacts, prior.artifacts)),
                  full, streams, <<>>)
<1> DEFINE e == Exchange!TaskEvent(full)
           next == Task(full.status, full.message, State(full, prior.state), Exchange!Over(full.artifacts, prior.artifacts))
<1>1. Exchange!Apply(prior, e) = next
  <2>1. prior = Task(prior.status, prior.message, prior.state, prior.artifacts)
    BY DEF IsTask
  <2>2. Exchange!Apply(Task(prior.status, prior.message, prior.state, prior.artifacts), e) = next
    BY TaskApplied
  <2> QED  BY <2>1, <2>2
<1>2. e.case = "task" /\ e.task = full /\ Exchange!Forwarded(e) = <<>>
  BY Cases
<1> HIDE DEF e, next
<1>3. Heard(Exchange!NoTask, e) = full
  BY <1>2 DEF Heard
<1>4. TakeIn(Both(prior, Exchange!NoTask, streams, <<>>), e, streams) = Both(next, full, streams, <<>> \o <<>>)
  <2>1. \A deltas : TakeIn(Both(prior, Exchange!NoTask, streams, deltas), e, streams)
          = Both(Exchange!Apply(prior, e), Heard(Exchange!NoTask, e), streams, deltas \o Exchange!Forwarded(e))
    BY BothTaken
  <2> QED  BY <1>1, <1>2, <1>3, <2>1
<1>5. <<>> \o <<>> = <<>>
  OBVIOUS
<1> QED  BY <1>4, <1>5 DEF Fresh, e, next

(* A last event which is the status.                                       *)
LEMMA StatusTold ==
  ASSUME NEW prior, NEW streams \in BOOLEAN, NEW held, NEW deltas, IsSeq(deltas), NEW full
  PROVE  TakeIn(Going(prior, streams, held, deltas), Exchange!StatusUpdate(full), streams)
           = Both(Task(full.status, full.message, State(full, prior.state), Exchange!Over(held, prior.artifacts)),
                  Task(full.status, full.message, State(full, None), Exchange!Over(held, Exchange!NoTask.artifacts)),
                  streams, deltas)
<1> DEFINE e == Exchange!StatusUpdate(full)
           next == Task(full.status, full.message, State(full, prior.state), Exchange!Over(held, prior.artifacts))
           other == Task(full.status, full.message, State(full, None), Exchange!Over(held, Exchange!NoTask.artifacts))
<1>1. Exchange!Apply(Under(prior, held), e) = next /\ Exchange!Apply(Under(Exchange!NoTask, held), e) = other
  BY StatusApplied, NothingFacts DEF Under
<1>2. e.case = "statusUpdate" /\ Exchange!Forwarded(e) = <<>>
  BY Cases
<1>3. Under(Exchange!NoTask, held) # Exchange!NoTask
  BY NotNothing DEF Under
<1> HIDE DEF e, next, other
<1>4. Heard(Under(Exchange!NoTask, held), e) = other
  BY <1>1, <1>2, <1>3 DEF Heard
<1>5. TakeIn(Both(Under(prior, held), Under(Exchange!NoTask, held), streams, deltas), e, streams)
        = Both(next, other, streams, deltas \o <<>>)
  <2> DEFINE one == Under(prior, held)
             two == Under(Exchange!NoTask, held)
  <2>1. TakeIn(Both(one, two, streams, deltas), e, streams)
          = Both(Exchange!Apply(one, e), Heard(two, e), streams, deltas \o Exchange!Forwarded(e))
    BY BothTaken
  <2> QED  BY <1>1, <1>2, <1>4, <2>1
<1>6. deltas \o <<>> = deltas
  BY DEF IsSeq
<1> QED  BY <1>5, <1>6 DEF Going, e, next, other

--------------------------------------------------------------------------------
(* Parts of one kind.                                                      *)
OfCase(parts, case) == {i \in DOMAIN parts : parts[i].case = case}

LEMMA ValuesNone ==
  ASSUME NEW parts, NEW case, OfCase(parts, case) = {}
  PROVE  Exchange!Values(parts, case) = <<>>
<1>1. Exchange!Pick(parts, OfCase(parts, case)) = <<>>
  BY PickNone
<1>2. Exchange!Values(parts, case) = [i \in DOMAIN <<>> |-> <<>>[i].value]
  BY <1>1, Zenon DEF Exchange!Values, OfCase
<1> QED  BY <1>2

LEMMA ValuesOne ==
  ASSUME NEW parts, IsSeq(parts), NEW case, NEW k \in 1 .. Len(parts), OfCase(parts, case) = {k}
  PROVE  Exchange!Values(parts, case) = <<parts[k].value>>
<1> DEFINE s == <<parts[k]>>
<1>1. Exchange!Pick(parts, OfCase(parts, case)) = s
  BY IsSeqFacts, PickOne
<1>2. Exchange!Values(parts, case) = [i \in DOMAIN s |-> s[i].value]
  <2> HIDE DEF s
  <2> QED  BY <1>1, Zenon DEF Exchange!Values, OfCase
<1>3. [i \in DOMAIN s |-> s[i].value] = <<parts[k].value>>
  OBVIOUS
<1> QED  BY <1>2, <1>3

LEMMA ValuesAll ==
  ASSUME NEW parts, IsSeq(parts), NEW case, OfCase(parts, case) = 1 .. Len(parts)
  PROVE  Exchange!Values(parts, case) = [i \in 1 .. Len(parts) |-> parts[i].value]
<1>1. Len(parts) \in Nat /\ DOMAIN parts = 1 .. Len(parts) /\ parts = [i \in 1 .. Len(parts) |-> parts[i]]
  BY IsSeqFacts
<1>2. Exchange!Pick(parts, OfCase(parts, case)) = parts
  BY <1>1, PickAll
<1>3. Exchange!Values(parts, case) = [i \in DOMAIN parts |-> parts[i].value]
  BY <1>2, Zenon DEF Exchange!Values, OfCase
<1> QED  BY <1>1, <1>3

Texts(s) == [i \in DOMAIN s |-> Exchange!Text(s[i])]

LEMMA TextsFacts ==
  ASSUME NEW s, IsSeq(s)
  PROVE  /\ IsSeq(Texts(s)) /\ Len(Texts(s)) = Len(s)
         /\ Exchange!Values(Texts(s), "text") = s /\ Exchange!Values(Texts(s), "data") = <<>>
<1> DEFINE t == Texts(s)
           V == {t[i] : i \in 1 .. Len(s)}
<1>1. Len(s) \in Nat /\ DOMAIN s = 1 .. Len(s) /\ s = [i \in 1 .. Len(s) |-> s[i]]
  BY IsSeqFacts
<1>2. t = [i \in 1 .. Len(s) |-> Exchange!Text(s[i])]
  BY <1>1, Zenon DEF Texts
<1>3. \A i \in 1 .. Len(s) : t[i].case = "text" /\ t[i].value = s[i] /\ t[i] \in V
  BY <1>2 DEF Exchange!Text
<1>4. t \in [1 .. Len(s) -> V]
  BY <1>2, <1>3
<1> HIDE DEF t, V
<1>5. t \in Seq(V) /\ Len(t) = Len(s) /\ DOMAIN t = 1 .. Len(s)
  BY <1>1, <1>4
<1>6. IsSeq(t)
  BY <1>5, SeqIsSeq
<1>7. OfCase(t, "text") = 1 .. Len(t) /\ OfCase(t, "data") = {}
  BY <1>3, <1>5 DEF OfCase
<1>8. Exchange!Values(t, "text") = [i \in 1 .. Len(t) |-> t[i].value]
  BY <1>6, <1>7, ValuesAll
<1>9. [i \in 1 .. Len(t) |-> t[i].value] = s
  BY <1>1, <1>3, <1>5
<1> QED  BY <1>5, <1>6, <1>7, <1>8, <1>9, ValuesNone DEF t

LEMMA NoTexts == Texts(<<>>) = <<>> /\ IsSeq(<<>>)
BY DEF Texts, IsSeq

LEMMA Appended ==
  ASSUME NEW s, IsSeq(s), NEW x
  PROVE  /\ IsSeq(Append(s, x)) /\ Append(s, x) = s \o <<x>> /\ Append(s, x) # <<>>
         /\ Texts(Append(s, x)) = Texts(s) \o <<Exchange!Text(x)>>
<1> DEFINE S == {s[i] : i \in DOMAIN s} \cup {x}
           a == Append(s, x)
           y == Exchange!Text(x)
           t == Texts(s)
<1>1. s \in Seq(S) /\ x \in S
  <2> DEFINE V == {s[i] : i \in DOMAIN s}
  <2>1. s \in Seq(V)
    BY DEF IsSeq
  <2>2. V \subseteq S /\ x \in S
    OBVIOUS
  <2> HIDE DEF V, S
  <2> QED  BY <2>1, <2>2
<1> HIDE DEF S
<1>2. a \in Seq(S) /\ a = s \o <<x>> /\ a # <<>>
  BY <1>1
<1>3. IsSeq(a)
  BY <1>2, SeqIsSeq
<1>4. Len(s) \in Nat /\ Len(a) = Len(s) + 1 /\ DOMAIN a = 1 .. Len(s) + 1 /\ a[Len(s) + 1] = x
      /\ \A i \in 1 .. Len(s) : a[i] = s[i]
  BY <1>1
<1>5. IsSeq(t) /\ Len(t) = Len(s) /\ \A i \in 1 .. Len(s) : t[i] = Exchange!Text(s[i])
  BY TextsFacts, IsSeqFacts DEF Texts
<1>6. IsSeq(<<y>>) /\ Len(<<y>>) = 1 /\ <<y>>[1] = y
  <2>1. <<y>> \in Seq({y})
    OBVIOUS
  <2> QED  BY <2>1, SeqIsSeq
<1> DEFINE b == t \o <<y>>
           l == Texts(a)
<1>7. IsSeq(b) /\ Len(b) = Len(s) + 1 /\ (\A i \in 1 .. Len(s) : b[i] = t[i]) /\ b[Len(s) + 1] = y
  <2> HIDE DEF t, y
  <2>1. /\ IsSeq(t \o <<y>>) /\ Len(t \o <<y>>) = Len(t) + Len(<<y>>)
        /\ \A i \in 1 .. Len(t) : (t \o <<y>>)[i] = t[i]
        /\ \A i \in 1 .. Len(<<y>>) : (t \o <<y>>)[Len(t) + i] = <<y>>[i]
    BY <1>5, <1>6, JoinFacts
  <2> QED  BY <1>4, <1>5, <1>6, <2>1
<1>8. IsSeq(l) /\ Len(l) = Len(s) + 1 /\ \A i \in 1 .. Len(s) + 1 : l[i] = Exchange!Text(a[i])
  BY <1>3, <1>4, TextsFacts DEF Texts
<1> HIDE DEF a, b, l
<1>9. \A i \in 1 .. Len(s) + 1 : l[i] = b[i]
  <2>1. SUFFICES ASSUME NEW i \in 1 .. Len(s) + 1  PROVE l[i] = b[i]
    OBVIOUS
  <2>2. i \in 1 .. Len(s) \/ i = Len(s) + 1
    BY <1>4
  <2> QED  BY <1>4, <1>5, <1>7, <1>8, <2>2
<1>10. l = [i \in 1 .. Len(s) + 1 |-> l[i]] /\ b = [i \in 1 .. Len(s) + 1 |-> b[i]]
  BY <1>7, <1>8, IsSeqFacts
<1>11. l = b
  BY <1>9, <1>10
<1> QED  BY <1>2, <1>3, <1>11 DEF a, b, l

--------------------------------------------------------------------------------
(* The events of a turn that goes on.                                      *)
LEMMA NothingMade == DOMAIN Made(<<>>) = {} /\ IsFcn(Made(<<>>)) /\ Made(<<>>) = Exchange!NoArtifacts
BY DEF Made, IsFcn, Exchange!NoArtifacts

LEMMA MadeIs == ASSUME NEW deltas, deltas # <<>>  PROVE Made(deltas) = One(Exchange!Answer, Texts(deltas))
BY Zenon DEF Made, One, Texts

LEMMA OneFacts == ASSUME NEW a, NEW parts  PROVE DOMAIN One(a, parts) = {a} /\ IsFcn(One(a, parts)) /\ One(a, parts)[a] = parts
BY DEF One, IsFcn

LEMMA WorkingIs == Exchange!WorkingTask = Task("working", <<>>, None, Exchange!NoArtifacts)
<1> DEFINE w == Exchange!WorkingTask
<1>1. w.status = "working" /\ w.message = <<>> /\ w.state = None /\ w.artifacts = Exchange!NoArtifacts
  BY DEF Exchange!WorkingTask, Exchange!NoTask
<1>2. w = [a \in {"status", "message", "state", "artifacts"} |-> w[a]]
  BY DEF Exchange!WorkingTask, Exchange!NoTask
<1> HIDE DEF w
<1>3. w = Task(w.status, w.message, w.state, w.artifacts)
  BY <1>2 DEF Task
<1> QED  BY <1>1, <1>3 DEF w

LEMMA StartsLeads ==
  ASSUME NEW prior, IsTask(prior), NEW streams \in BOOLEAN
  PROVE  Leads(Fresh(prior, streams), <<Exchange!TaskEvent(Exchange!WorkingTask)>>,
               Going(prior, streams, Made(<<>>), <<>>), streams)
<1> DEFINE w == Exchange!WorkingTask
           e == Exchange!TaskEvent(w)
           x == Fresh(prior, streams)
           y == Going(prior, streams, Made(<<>>), <<>>)
<1>1. TakeIn(x, e, streams)
        = Both(Task(w.status, w.message, State(w, prior.state), Exchange!Over(w.artifacts, prior.artifacts)), w, streams, <<>>)
  BY TaskTaken
<1>2. w.status = "working" /\ w.message = <<>> /\ w.state = None /\ w.artifacts = Exchange!NoArtifacts
  BY WorkingIs, TaskFacts
<1>3. State(w, prior.state) = prior.state
  BY <1>2 DEF State
<1>4. Task(w.status, w.message, State(w, prior.state), Exchange!Over(w.artifacts, prior.artifacts)) = Under(prior, Made(<<>>))
  BY <1>2, <1>3, NothingMade DEF Under
<1>5. w = Under(Exchange!NoTask, Made(<<>>))
  <2>1. Exchange!Over(Exchange!NoArtifacts, Exchange!NoArtifacts) = Exchange!NoArtifacts
    BY OverNothing, NothingFacts
  <2> QED  BY <2>1, WorkingIs, NothingMade, NothingFacts DEF Under
<1> HIDE DEF w, e
<1>6. TakeIn(x, e, streams) = y
  BY <1>1, <1>4, <1>5 DEF Going
<1> HIDE DEF x, y
<1>7. Leads(x, <<e>>, y, streams)
  BY <1>6, LeadsOne
<1> QED  BY <1>7 DEF x, y, e, w

LEMMA Forwards ==
  /\ \A a, parts : Exchange!Forwarded(Exchange!ArtifactUpdate(a, parts, FALSE)) = <<>>
  /\ \A a : Exchange!Forwarded(Exchange!ArtifactUpdate(a, <<>>, TRUE)) = <<>>
  /\ \A a, x : Exchange!Forwarded(Exchange!ArtifactUpdate(a, <<Exchange!Text(x)>>, TRUE)) = <<x>>
<1>1. \A a, parts : Exchange!Forwarded(Exchange!ArtifactUpdate(a, parts, FALSE)) = <<>>
  BY DEF Exchange!Forwarded, Exchange!ArtifactUpdate
<1>2. \A a, parts : Exchange!Forwarded(Exchange!ArtifactUpdate(a, parts, TRUE)) = Exchange!Values(parts, "text")
  BY DEF Exchange!Forwarded, Exchange!ArtifactUpdate
<1>3. Exchange!Values(<<>>, "text") = <<>>
  BY NoTexts, TextsFacts
<1>4. \A x : Exchange!Values(<<Exchange!Text(x)>>, "text") = <<x>>
  <2>1. SUFFICES ASSUME NEW x  PROVE Exchange!Values(<<Exchange!Text(x)>>, "text") = <<x>>
    OBVIOUS
  <2>2. IsSeq(<<x>>)
    <3>1. <<x>> \in Seq({x})
      OBVIOUS
    <3> QED  BY <3>1, SeqIsSeq
  <2>3. Texts(<<x>>) = <<Exchange!Text(x)>>
    BY DEF Texts
  <2> QED  BY <2>2, <2>3, TextsFacts
<1> QED  BY <1>1, <1>2, <1>3, <1>4

LEMMA OpensLeads ==
  ASSUME NEW prior, NEW streams \in BOOLEAN
  PROVE  Leads(Going(prior, streams, Made(<<>>), <<>>), <<Exchange!ArtifactUpdate(Exchange!Answer, <<>>, FALSE)>>,
               Going(prior, streams, One(Exchange!Answer, <<>>), <<>>), streams)
<1> DEFINE a == Exchange!Answer
           held == Made(<<>>)
           e == Exchange!ArtifactUpdate(a, <<>>, FALSE)
           x == Going(prior, streams, held, <<>>)
           y == Going(prior, streams, One(a, <<>>), <<>>)
<1> HIDE DEF a
<1>1. InHand(FALSE, held, a)
  BY DEF InHand
<1>2. Part(FALSE, held, a) \o <<>> = <<>>
  BY DEF Part
<1>3. Exchange!Over(One(a, <<>>), held) = One(a, <<>>)
  BY OverNothing, NothingMade, OneFacts
<1>4. <<>> \o Exchange!Forwarded(e) = <<>>
  <2>1. \A parts : Exchange!Forwarded(Exchange!ArtifactUpdate(a, parts, FALSE)) = <<>>
    BY Forwards
  <2>2. Exchange!Forwarded(e) = <<>>
    BY <2>1
  <2> HIDE DEF e
  <2> QED  BY <2>2
<1> HIDE DEF held
<1>5. \A deltas, parts : TakeIn(Going(prior, streams, held, deltas), Exchange!ArtifactUpdate(a, parts, FALSE), streams)
           = Going(prior, streams, Exchange!Over(One(a, Part(FALSE, held, a) \o parts), held),
                     deltas \o Exchange!Forwarded(Exchange!ArtifactUpdate(a, parts, FALSE)))
  <2> DEFINE how == FALSE
  <2>1. how \in BOOLEAN /\ InHand(how, held, a)
    BY <1>1
  <2> HIDE DEF how
  <2>2. \A deltas, parts : TakeIn(Going(prior, streams, held, deltas), Exchange!ArtifactUpdate(a, parts, how), streams)
           = Going(prior, streams, Exchange!Over(One(a, Part(how, held, a) \o parts), held),
                     deltas \o Exchange!Forwarded(Exchange!ArtifactUpdate(a, parts, how)))
    BY <2>1, ArtifactTaken
  <2> QED  BY <2>2 DEF how
<1>6. TakeIn(x, e, streams) = y
  BY <1>2, <1>3, <1>4, <1>5
<1> HIDE DEF x, y, e
<1>7. Leads(x, <<e>>, y, streams)
  BY <1>6, LeadsOne
<1> QED  BY <1>7 DEF x, y, e, held, a

(* The texts of the answer grow with the deltas.                           *)
LEMMA GrowsLeads ==
  ASSUME NEW prior, NEW streams \in BOOLEAN, NEW deltas, IsSeq(deltas), NEW parts, NEW new,
         \/ parts = <<>> /\ new = deltas
         \/ \E x : parts = <<Exchange!Text(x)>> /\ new = Append(deltas, x)
  PROVE  Leads(Going(prior, streams, One(Exchange!Answer, Texts(deltas)), deltas),
               <<Exchange!ArtifactUpdate(Exchange!Answer, parts, TRUE)>>,
               Going(prior, streams, One(Exchange!Answer, Texts(new)), new), streams)
<1> DEFINE a == Exchange!Answer
           held == One(a, Texts(deltas))
           e == Exchange!ArtifactUpdate(a, parts, TRUE)
           x == Going(prior, streams, held, deltas)
           y == Going(prior, streams, One(a, Texts(new)), new)
<1> HIDE DEF a
<1>1. DOMAIN held = {a} /\ held[a] = Texts(deltas)
  BY OneFacts
<1>2. Texts(deltas) \o parts = Texts(new) /\ deltas \o Exchange!Forwarded(e) = new
  <2>1. CASE parts = <<>> /\ new = deltas
    <3>1. Texts(deltas) \o <<>> = Texts(deltas) /\ deltas \o <<>> = deltas
      BY TextsFacts DEF IsSeq
    <3> QED  BY <2>1, <3>1, Forwards
  <2>2. CASE \E z : parts = <<Exchange!Text(z)>> /\ new = Append(deltas, z)
    <3>1. PICK z : parts = <<Exchange!Text(z)>> /\ new = Append(deltas, z)
      BY <2>2
    <3>2. Exchange!Forwarded(e) = <<z>>
      BY <3>1, Forwards
    <3> HIDE DEF e
    <3> QED  BY <3>1, <3>2, Appended
  <2> QED  BY <2>1, <2>2
<1>3. DOMAIN One(a, Texts(new)) = {a} /\ IsFcn(One(a, Texts(new)))
  BY OneFacts
<1> HIDE DEF held
<1>4. InHand(TRUE, held, a) /\ Part(TRUE, held, a) = Texts(deltas)
  BY <1>1 DEF InHand, Part
<1>5. Exchange!Over(One(a, Texts(new)), held) = One(a, Texts(new))
  BY <1>1, <1>3, OverCovers
<1>6. TakeIn(x, e, streams)
           = Going(prior, streams, Exchange!Over(One(a, Part(TRUE, held, a) \o parts), held),
                     deltas \o Exchange!Forwarded(e))
  <2> DEFINE how == TRUE
  <2>1. how \in BOOLEAN /\ InHand(how, held, a)
    BY <1>4
  <2> HIDE DEF how
  <2>2. TakeIn(Going(prior, streams, held, deltas), Exchange!ArtifactUpdate(a, parts, how), streams)
           = Going(prior, streams, Exchange!Over(One(a, Part(how, held, a) \o parts), held),
                     deltas \o Exchange!Forwarded(Exchange!ArtifactUpdate(a, parts, how)))
    BY <2>1, ArtifactTaken
  <2> QED  BY <2>2 DEF how
<1>7. TakeIn(x, e, streams) = y
  <2> HIDE DEF x, e
  <2> QED  BY <1>2, <1>4, <1>5, <1>6
<1> HIDE DEF x, y, e
<1>8. Leads(x, <<e>>, y, streams)
  BY <1>7, LeadsOne
<1> QED  BY <1>8 DEF x, y, e, held, a

(* A status without a state changes nothing.                               *)
LEMMA StillLeads ==
  ASSUME NEW prior, NEW streams \in BOOLEAN
  PROVE  Leads(Going(prior, streams, Made(<<>>), <<>>), <<Exchange!StatusUpdate(Exchange!WorkingTask)>>,
               Going(prior, streams, Made(<<>>), <<>>), streams)
<1> DEFINE w == Exchange!WorkingTask
           e == Exchange!StatusUpdate(w)
           held == Made(<<>>)
           x == Going(prior, streams, held, <<>>)
           one == Task(w.status, w.message, State(w, prior.state), Exchange!Over(held, prior.artifacts))
           other == Task(w.status, w.message, State(w, None), Exchange!Over(held, Exchange!NoTask.artifacts))
<1>1. w.status = "working" /\ w.message = <<>> /\ w.state = None
  BY WorkingIs, TaskFacts
<1> HIDE DEF w, held
<1>2. \A deltas : IsSeq(deltas) => TakeIn(Going(prior, streams, held, deltas), e, streams) = Both(one, other, streams, deltas)
  <2> SUFFICES ASSUME NEW deltas, IsSeq(deltas)
               PROVE  TakeIn(Going(prior, streams, held, deltas), e, streams) = Both(one, other, streams, deltas)
    OBVIOUS
  <2>1. TakeIn(Going(prior, streams, held, deltas), Exchange!StatusUpdate(w), streams)
          = Both(Task(w.status, w.message, State(w, prior.state), Exchange!Over(held, prior.artifacts)),
                 Task(w.status, w.message, State(w, None), Exchange!Over(held, Exchange!NoTask.artifacts)),
                 streams, deltas)
    BY StatusTold
  <2> QED  BY <2>1
<1>3. State(w, prior.state) = prior.state /\ State(w, None) = None
  BY <1>1 DEF State
<1>4. one = Under(prior, held) /\ other = Under(Exchange!NoTask, held)
  BY <1>1, <1>3, NothingFacts DEF Under
<1> HIDE DEF one, other
<1>5. TakeIn(x, e, streams) = Both(one, other, streams, <<>>)
  BY <1>2, NoTexts
<1>6. TakeIn(x, e, streams) = x
  BY <1>4, <1>5 DEF Going
<1> HIDE DEF x, e
<1>7. Leads(x, <<e>>, x, streams)
  BY <1>6, LeadsOne
<1> QED  BY <1>7 DEF x, e, w, held

--------------------------------------------------------------------------------
(* The events that end a turn.                                             *)
Sofar(A, given, i) == [a \in {given[j] : j \in 1 .. i} |-> A[a]]
Update(a, parts) == Exchange!ArtifactUpdate(a, parts, FALSE)
Updates(A, given) == [i \in DOMAIN given |-> Update(given[i], A[given[i]])]

(* An artifact more.                                                       *)
LEMMA ArtifactMore ==
  ASSUME NEW A, NEW given, NEW n \in Nat, NEW i \in 1 .. n
  PROVE  Exchange!Over(One(given[i], A[given[i]]), Sofar(A, given, i - 1)) = Sofar(A, given, i)
<1> DEFINE g == given[i]
           S == {given[j] : j \in 1 .. i - 1}
           T == {given[j] : j \in 1 .. i}
<1>1. T = S \cup {g}
  <2>1. \A j \in 1 .. i : j \in 1 .. i - 1 \/ j = i
    OBVIOUS
  <2>2. i \in 1 .. i /\ \A j \in 1 .. i - 1 : j \in 1 .. i
    OBVIOUS
  <2> QED  BY <2>1, <2>2
<1>2. Sofar(A, given, i - 1) = [a \in S |-> A[a]] /\ Sofar(A, given, i) = [a \in T |-> A[a]]
  BY Zenon DEF Sofar
<1> HIDE DEF g, S, T
<1>3. Exchange!Over(One(g, A[g]), [a \in S |-> A[a]]) = [a \in {g} \cup S |-> A[a]]
  BY DEF Exchange!Over, One
<1> QED  BY <1>1, <1>2, <1>3 DEF g

LEMMA UpdateTaken ==
  ASSUME NEW prior, NEW streams \in BOOLEAN, NEW held, NEW deltas, IsSeq(deltas), NEW a, NEW parts, IsSeq(parts)
  PROVE  TakeIn(Going(prior, streams, held, deltas), Update(a, parts), streams)
           = Going(prior, streams, Exchange!Over(One(a, parts), held), deltas)
<1> DEFINE how == FALSE
<1>1. how \in BOOLEAN /\ InHand(how, held, a)
  BY DEF InHand
<1>2. Part(how, held, a) = <<>> /\ Exchange!Forwarded(Exchange!ArtifactUpdate(a, parts, how)) = <<>>
  BY Forwards DEF Part
<1>3. Update(a, parts) = Exchange!ArtifactUpdate(a, parts, how)
  BY DEF Update
<1> HIDE DEF how
<1>4. TakeIn(Going(prior, streams, held, deltas), Exchange!ArtifactUpdate(a, parts, how), streams)
           = Going(prior, streams, Exchange!Over(One(a, Part(how, held, a) \o parts), held),
                     deltas \o Exchange!Forwarded(Exchange!ArtifactUpdate(a, parts, how)))
  BY <1>1, ArtifactTaken
<1>5. <<>> \o parts = parts /\ deltas \o <<>> = deltas
  BY DEF IsSeq
<1> QED  BY <1>2, <1>3, <1>4, <1>5

AreAll(A, given) ==
  /\ IsFcn(A) /\ \A a \in DOMAIN A : IsSeq(A[a])
  /\ IsSeq(given) /\ DOMAIN A = {given[i] : i \in 1 .. Len(given)}

LEMMA GivenLeads ==
  ASSUME NEW prior, NEW streams \in BOOLEAN, NEW held, IsFcn(held), NEW deltas, IsSeq(deltas),
         NEW A, NEW given, AreAll(A, given)
  PROVE  /\ IsSeq(Updates(A, given))
         /\ Leads(Going(prior, streams, held, deltas), Updates(A, given), Going(prior, streams, Exchange!Over(A, held), deltas), streams)
<1> DEFINE n == Len(given)
           c == Updates(A, given)
<1>1. n \in Nat /\ DOMAIN given = 1 .. n
  BY IsSeqFacts DEF AreAll
<1>2. c = [i \in 1 .. n |-> Update(given[i], A[given[i]])]
  BY <1>1, Zenon DEF Updates
<1> HIDE DEF n, c
<1>3. Len(c) = n /\ IsSeq(c)
  <2> DEFINE S == {c[i] : i \in 1 .. n}
  <2>1. c = [i \in 1 .. n |-> c[i]] /\ \A i \in 1 .. n : c[i] \in S
    BY <1>2
  <2> HIDE DEF S
  <2>2. c \in Seq(S) /\ Len(c) = n
    BY <1>1, <2>1
  <2> QED  BY <2>2, SeqIsSeq
<1> DEFINE f == [i \in 0 .. n |-> Going(prior, streams, Exchange!Over(Sofar(A, given, i), held), deltas)]
<1>4. Exchange!Over(Sofar(A, given, 0), held) = held
  <2>1. DOMAIN Sofar(A, given, 0) = {}
    BY DEF Sofar
  <2> QED  BY <2>1, OverNothing
<1>5. Sofar(A, given, n) = A
  <2>1. {given[j] : j \in 1 .. n} = DOMAIN A
    BY DEF n, AreAll
  <2> QED  BY <2>1 DEF Sofar, IsFcn, AreAll
<1>6. ASSUME NEW i \in 1 .. n  PROVE f[i] = TakeIn(f[i - 1], c[i], streams)
  <2> DEFINE g == given[i]
             before == Sofar(A, given, i - 1)
             parts == A[g]
  <2>1. c[i] = Update(g, parts) /\ IsSeq(parts)
    <3>1. g \in DOMAIN A
      BY DEF n, AreAll
    <3> QED  BY <1>2, <3>1 DEF AreAll
  <2>2. Exchange!Over(One(g, parts), before) = Sofar(A, given, i)
    BY <1>1, ArtifactMore
  <2>3. i - 1 \in 0 .. n /\ i \in 0 .. n
    BY <1>1
  <2>4. f[i - 1] = Going(prior, streams, Exchange!Over(before, held), deltas)
        /\ f[i] = Going(prior, streams, Exchange!Over(Sofar(A, given, i), held), deltas)
    BY <2>3
  <2> HIDE DEF f, g, before, parts
  <2> DEFINE over == Exchange!Over(before, held)
  <2>5. TakeIn(Going(prior, streams, over, deltas), Update(g, parts), streams)
          = Going(prior, streams, Exchange!Over(One(g, parts), over), deltas)
    <3> HIDE DEF over
    <3>1. IsSeq(parts)
      BY <2>1
    <3> QED  BY <3>1, UpdateTaken
  <2>6. Exchange!Over(One(g, parts), Exchange!Over(before, held)) = Exchange!Over(Exchange!Over(One(g, parts), before), held)
    BY OverOver
  <2> QED  BY <2>1, <2>2, <2>4, <2>5, <2>6
<1>7. f[0] = Going(prior, streams, held, deltas) /\ f[n] = Going(prior, streams, Exchange!Over(A, held), deltas)
  <2>1. 0 \in 0 .. n /\ n \in 0 .. n
    BY <1>1
  <2> QED  BY <1>4, <1>5, <2>1
<1> HIDE DEF f
<1>8. Leads(Going(prior, streams, held, deltas), c, Going(prior, streams, Exchange!Over(A, held), deltas), streams)
  BY <1>3, <1>6, <1>7 DEF Leads
<1> QED  BY <1>3, <1>8 DEF c

(* A last status, over what the turn gave.                                 *)
LEMMA EndsLeads ==
  ASSUME NEW prior, NEW streams \in BOOLEAN, NEW held, NEW deltas, IsSeq(deltas), NEW full
  PROVE  Leads(Going(prior, streams, Exchange!Over(full.artifacts, held), deltas), <<Exchange!StatusUpdate(full)>>,
               Done(prior, streams, held, deltas, full), streams)
<1> DEFINE A == full.artifacts
           all == Exchange!Over(A, held)
           e == Exchange!StatusUpdate(full)
           x == Going(prior, streams, all, deltas)
           none == Exchange!NoTask
           one == Task(full.status, full.message, State(full, prior.state), Exchange!Over(all, prior.artifacts))
           other == Task(full.status, full.message, State(full, None), Exchange!Over(all, none.artifacts))
<1>1. one = Ended(prior, held, full)
  <2>1. Exchange!Over(A, Exchange!Over(held, prior.artifacts)) = Exchange!Over(all, prior.artifacts)
    BY OverOver
  <2> HIDE DEF all, A
  <2>2. Ended(prior, held, full) = Task(full.status, full.message, State(full, prior.state),
                                        Exchange!Over(A, Exchange!Over(held, prior.artifacts)))
    BY Zenon DEF Ended, State, A
  <2> QED  BY <2>1, <2>2
<1>2. other = Ended(none, held, full)
  <2>1. Exchange!Over(A, Exchange!Over(held, none.artifacts)) = Exchange!Over(all, none.artifacts)
    BY OverOver
  <2> HIDE DEF all, A
  <2>2. none.state = None
    BY NothingFacts
  <2> HIDE DEF none
  <2>3. Ended(none, held, full) = Task(full.status, full.message, State(full, none.state),
                                        Exchange!Over(A, Exchange!Over(held, none.artifacts)))
    BY Zenon DEF Ended, State, A
  <2> QED  BY <2>1, <2>2, <2>3
<1> HIDE DEF all, A
<1>3. TakeIn(x, e, streams) = Both(one, other, streams, deltas)
  BY StatusTold
<1> HIDE DEF one, other, x, e
<1>4. TakeIn(x, e, streams) = Done(prior, streams, held, deltas, full)
  BY <1>1, <1>2, <1>3 DEF Done, none
<1>5. Leads(x, <<e>>, TakeIn(x, e, streams), streams)
  BY LeadsOne
<1> QED  BY <1>4, <1>5 DEF x, e, all, A

(* A turn that says nothing before its end.                                *)
LEMMA AllLeads ==
  ASSUME NEW prior, IsTask(prior), NEW streams \in BOOLEAN, NEW full, IsTask(full)
  PROVE  Leads(Fresh(prior, streams), <<Exchange!TaskEvent(full)>>, Done(prior, streams, Made(<<>>), <<>>, full), streams)
<1> DEFINE none == Exchange!NoTask
           held == Made(<<>>)
           e == Exchange!TaskEvent(full)
           x == Fresh(prior, streams)
           one == Task(full.status, full.message, State(full, prior.state), Exchange!Over(full.artifacts, prior.artifacts))
<1>1. DOMAIN held = {} /\ IsFcn(prior.artifacts) /\ IsFcn(full.artifacts)
  BY NothingMade DEF IsTask, IsFcn
<1>2. DOMAIN none.artifacts = {} /\ IsFcn(none.artifacts) /\ none.state = None
  BY NothingFacts
<1> HIDE DEF held, none
<1>3. one = Ended(prior, held, full)
  <2>1. Exchange!Over(held, prior.artifacts) = prior.artifacts
    BY <1>1, OverNothing
  <2> QED  BY <2>1, Zenon DEF Ended, State
<1>4. full = Ended(none, held, full)
  <2>1. Exchange!Over(held, none.artifacts) = none.artifacts
    BY <1>1, <1>2, OverNothing
  <2>2. Exchange!Over(full.artifacts, none.artifacts) = full.artifacts
    BY <1>1, <1>2, OverNothing
  <2>3. Ended(none, held, full) = Task(full.status, full.message, full.state, full.artifacts)
    BY <1>2, <2>1, <2>2 DEF Ended
  <2> QED  BY <2>3 DEF IsTask
<1>5. TakeIn(x, e, streams) = Both(one, full, streams, <<>>)
  BY TaskTaken
<1> HIDE DEF one, x, e
<1>6. \A deltas : Done(prior, streams, held, deltas, full) = Both(one, full, streams, deltas)
  BY <1>3, <1>4 DEF Done, none
<1>7. Leads(x, <<e>>, TakeIn(x, e, streams), streams)
  BY LeadsOne
<1>8. TakeIn(x, e, streams) = Done(prior, streams, held, <<>>, full)
  BY <1>5, <1>6
<1> QED  BY <1>7, <1>8 DEF x, e, held

Ids == {Exchange!Artifacts[i] : i \in DOMAIN Exchange!Artifacts}

LEMMA ArtifactsAre ==
  /\ IsSeq(Exchange!Artifacts) /\ Len(Exchange!Artifacts) = MaxAsked + 2 /\ MaxAsked \in Nat
  /\ Exchange!Artifacts[1] = Exchange!Form /\ Exchange!Artifacts[2] = Exchange!Answer
  /\ \A n \in 1 .. MaxAsked : Exchange!Artifacts[n + 2] = Exchange!ResultOf(n)
<1> DEFINE two == <<Exchange!Form, Exchange!Answer>>
           rest == [n \in 1 .. MaxAsked |-> Exchange!ResultOf(n)]
           V == {rest[n] : n \in 1 .. MaxAsked}
<1>1. MaxAsked \in Nat
  BY ExchangeAssumption
<1>2. Exchange!Artifacts = two \o rest
  BY Zenon DEF Exchange!Artifacts
<1>3. IsSeq(two) /\ Len(two) = 2 /\ two[1] = Exchange!Form /\ two[2] = Exchange!Answer
  <2>1. two \in Seq({Exchange!Form, Exchange!Answer})
    OBVIOUS
  <2>2. Len(two) = 2 /\ two[1] = Exchange!Form /\ two[2] = Exchange!Answer
    OBVIOUS
  <2> HIDE DEF two
  <2> QED  BY <2>1, <2>2, SeqIsSeq
<1>4. IsSeq(rest) /\ Len(rest) = MaxAsked /\ \A n \in 1 .. MaxAsked : rest[n] = Exchange!ResultOf(n)
  <2>1. rest = [n \in 1 .. MaxAsked |-> rest[n]] /\ \A n \in 1 .. MaxAsked : rest[n] \in V /\ rest[n] = Exchange!ResultOf(n)
    OBVIOUS
  <2> HIDE DEF rest, V
  <2>2. rest \in Seq(V) /\ Len(rest) = MaxAsked
    BY <1>1, <2>1
  <2> QED  BY <2>1, <2>2, SeqIsSeq
<1> HIDE DEF two, rest
<1>5. /\ IsSeq(two \o rest) /\ Len(two \o rest) = 2 + MaxAsked
      /\ \A i \in 1 .. 2 : (two \o rest)[i] = two[i]
      /\ \A i \in 1 .. MaxAsked : (two \o rest)[2 + i] = rest[i]
  <2>1. IsSeq(two) /\ IsSeq(rest)
    BY <1>3, <1>4
  <2>2. /\ IsSeq(two \o rest) /\ Len(two \o rest) = Len(two) + Len(rest)
        /\ \A i \in 1 .. Len(two) : (two \o rest)[i] = two[i]
        /\ \A i \in 1 .. Len(rest) : (two \o rest)[Len(two) + i] = rest[i]
    BY <2>1, JoinFacts
  <2>3. Len(two) = 2 /\ Len(rest) = MaxAsked
    BY <1>3, <1>4
  <2> QED  BY <2>2, <2>3
<1>6. 1 \in 1 .. 2 /\ 2 \in 1 .. 2 /\ 2 + MaxAsked = MaxAsked + 2 /\ \A i \in 1 .. MaxAsked : i + 2 = 2 + i
  BY <1>1
<1> QED  BY <1>1, <1>2, <1>3, <1>4, <1>5, <1>6

LEMMA IdsAre ==
  /\ Ids = {Exchange!Form, Exchange!Answer} \cup {Exchange!ResultOf(n) : n \in 1 .. MaxAsked}
  /\ Exchange!Form # Exchange!Answer
  /\ \A n : Exchange!ResultOf(n) # Exchange!Form /\ Exchange!ResultOf(n) # Exchange!Answer
  /\ \A m, n : Exchange!ResultOf(m) = Exchange!ResultOf(n) => m = n
<1>1. /\ Exchange!Form # Exchange!Answer
      /\ \A n : Exchange!ResultOf(n) # Exchange!Form /\ Exchange!ResultOf(n) # Exchange!Answer
      /\ \A m, n : Exchange!ResultOf(m) = Exchange!ResultOf(n) => m = n
  BY DEF Exchange!Form, Exchange!Answer, Exchange!ResultOf
<1>2. Ids = {Exchange!Form, Exchange!Answer} \cup {Exchange!ResultOf(n) : n \in 1 .. MaxAsked}
  <2> DEFINE all == Exchange!Artifacts
             R == {Exchange!ResultOf(n) : n \in 1 .. MaxAsked}
  <2>1. /\ DOMAIN all = 1 .. MaxAsked + 2 /\ MaxAsked \in Nat
        /\ all[1] = Exchange!Form /\ all[2] = Exchange!Answer
        /\ \A n \in 1 .. MaxAsked : all[n + 2] = Exchange!ResultOf(n)
    BY ArtifactsAre, IsSeqFacts
  <2> HIDE DEF all
  <2>2. ASSUME NEW i \in 1 .. MaxAsked + 2  PROVE all[i] \in {Exchange!Form, Exchange!Answer} \cup R
    <3>1. CASE i = 1 \/ i = 2
      BY <2>1, <3>1
    <3>2. CASE ~ (i = 1 \/ i = 2)
      <4>1. i - 2 \in 1 .. MaxAsked /\ (i - 2) + 2 = i
        BY <2>1, <3>2
      <4>2. all[i] = Exchange!ResultOf(i - 2)
        BY <2>1, <4>1
      <4> QED  BY <4>1, <4>2
    <3> QED  BY <3>1, <3>2
  <2>3. 1 \in DOMAIN all /\ 2 \in DOMAIN all /\ \A n \in 1 .. MaxAsked : n + 2 \in DOMAIN all
    BY <2>1
  <2>4. Ids = {all[i] : i \in DOMAIN all}
    BY DEF Ids, all
  <2>5. \A a \in Ids : a \in {Exchange!Form, Exchange!Answer} \cup R
    BY <2>1, <2>2, <2>4
  <2>6. Exchange!Form \in Ids /\ Exchange!Answer \in Ids
    BY <2>1, <2>3, <2>4
  <2>7. \A n \in 1 .. MaxAsked : Exchange!ResultOf(n) \in Ids
    BY <2>1, <2>3, <2>4
  <2> QED  BY <2>5, <2>6, <2>7
<1> QED  BY <1>1, <1>2

Same(t, s, I) == {t[k] : k \in 1 .. Len(t)} = {s[i] : i \in I}

LEMMA PickedIs ==
  ASSUME NEW I, Places(I), NEW s
  PROVE  /\ IsSeq(Pick(s, I)) /\ Len(Pick(s, I)) = Cardinality(I)
         /\ Same(Pick(s, I), s, I)
<1>1. PICK p : Picks(p, s, I)
  BY PickFacts
<1> DEFINE c == Cardinality(I)
           t == Pick(s, I)
           V == {t[k] : k \in 1 .. c}
<1>2. t = [k \in 1 .. c |-> s[p[k]]] /\ c \in Nat /\ (\A i \in I : \E k \in 1 .. c : p[k] = i) /\ p \in [1 .. c -> I]
  BY <1>1 DEF Picks
<1> HIDE DEF c, t
<1>3. t = [k \in 1 .. c |-> t[k]] /\ \A k \in 1 .. c : t[k] \in V /\ t[k] = s[p[k]]
  BY <1>2
<1>4. V = {s[i] : i \in I}
  <2>1. ASSUME NEW k \in 1 .. c  PROVE t[k] \in {s[i] : i \in I}
    <3>1. p[k] \in I /\ t[k] = s[p[k]]
      BY <1>2, <1>3
    <3> QED  BY <3>1
  <2>2. ASSUME NEW i \in I  PROVE s[i] \in V
    <3>1. PICK k \in 1 .. c : p[k] = i
      BY <1>2
    <3>2. t[k] = s[i] /\ t[k] \in V
      BY <1>3, <3>1
    <3> QED  BY <3>2
  <2> QED  BY <2>1, <2>2
<1>5. IsSeq(t) /\ Len(t) = c
  <2> HIDE DEF V
  <2>1. t \in Seq(V) /\ Len(t) = c
    BY <1>2, <1>3
  <2> QED  BY <2>1, SeqIsSeq
<1> QED  BY <1>4, <1>5 DEF t, c, Same

(* The artifacts given are all there are.                                  *)
GivenIds(A) == Exchange!Pick(Exchange!Artifacts, {i \in DOMAIN Exchange!Artifacts : Exchange!Artifacts[i] \in DOMAIN A})

LEMMA GivenAll ==
  ASSUME NEW A, IsFcn(A), \A a \in DOMAIN A : IsSeq(A[a]), DOMAIN A \subseteq Ids
  PROVE  AreAll(A, GivenIds(A))
<1> DEFINE all == Exchange!Artifacts
           I == {i \in DOMAIN all : all[i] \in DOMAIN A}
           given == GivenIds(A)
           n == Len(all)
<1>1. DOMAIN all = 1 .. n /\ n \in Nat
  BY ArtifactsAre, IsSeqFacts
<1>2. given = Pick(all, I)
  BY PickedSame DEF GivenIds
<1>3. DOMAIN A = {all[i] : i \in I}
  BY DEF Ids
<1> HIDE DEF given, all, n
<1>4. Places(I)
  BY <1>1 DEF Places
<1> HIDE DEF I
<1>5. IsSeq(Pick(all, I)) /\ Same(Pick(all, I), all, I)
  BY <1>4, PickedIs
<1> QED  BY <1>2, <1>3, <1>5 DEF AreAll, given, Same

Sound(task) ==
  IsTask(task) /\ DOMAIN task.artifacts \subseteq Ids /\ \A a \in DOMAIN task.artifacts : IsSeq(task.artifacts[a])

Stale(task, prior, streamed) ==
  {a \in {Exchange!Form, Exchange!Answer} \ DOMAIN task.artifacts :
     Exchange!ArtifactParts(prior, a) # <<>> /\ (a = Exchange!Answer => ~streamed)}

ClearedState(task, prior) ==
  IF task.state = None /\ prior.state \notin {None, Exchange!Null} THEN Exchange!Null ELSE task.state

Clears(full, task, prior, streamed) ==
  /\ DOMAIN full.artifacts = DOMAIN task.artifacts \cup Stale(task, prior, streamed)
  /\ \A a \in DOMAIN task.artifacts : full.artifacts[a] = task.artifacts[a]
  /\ \A a \in Stale(task, prior, streamed) : full.artifacts[a] = <<>>

(* A task with what it clears.                                             *)
LEMMA FullFacts ==
  ASSUME NEW task, Sound(task), NEW prior, NEW streamed, NEW full, full = Exchange!Cleared(task, prior, streamed)
  PROVE  /\ Sound(full) /\ full.status = task.status /\ full.message = task.message
         /\ full.state = ClearedState(task, prior) /\ Clears(full, task, prior, streamed)
<1> DEFINE S == Stale(task, prior, streamed)
           A == task.artifacts
           B == [a \in DOMAIN A \cup S |-> IF a \in S THEN <<>> ELSE A[a]]
<1>1. full = Task(task.status, task.message, ClearedState(task, prior), B)
  BY Zenon DEF Exchange!Cleared, Task, ClearedState, Stale
<1>2. S \subseteq {Exchange!Form, Exchange!Answer} /\ \A a \in S : a \notin DOMAIN A
  BY DEF Stale
<1>3. DOMAIN A \subseteq Ids /\ \A a \in DOMAIN A : IsSeq(A[a])
  BY DEF Sound
<1> HIDE DEF S, A
<1>4. /\ DOMAIN B = DOMAIN A \cup S /\ B = [a \in DOMAIN B |-> B[a]]
      /\ \A a \in DOMAIN A : B[a] = A[a]
      /\ \A a \in S : B[a] = <<>>
  BY <1>2
<1> HIDE DEF B
<1>5. full.status = task.status /\ full.message = task.message /\ full.state = ClearedState(task, prior) /\ full.artifacts = B
  BY <1>1, TaskFacts
<1>6. IsTask(full)
  BY <1>1, <1>4, <1>5 DEF IsTask
<1>7. Exchange!Form \in Ids /\ Exchange!Answer \in Ids
  BY IdsAre
<1>8. DOMAIN B \subseteq Ids
  BY <1>2, <1>3, <1>4, <1>7
<1>9. \A a \in DOMAIN B : IsSeq(B[a])
  BY <1>3, <1>4, NoTexts
<1>10. Sound(full)
  BY <1>5, <1>6, <1>8, <1>9 DEF Sound
<1>11. Clears(full, task, prior, streamed)
  BY <1>4, <1>5 DEF Clears, A, S
<1> QED  BY <1>5, <1>10, <1>11

LEMMA OneSeq == \A e : IsSeq(<<e>>)
<1> SUFFICES ASSUME NEW e  PROVE IsSeq(<<e>>)
  OBVIOUS
<1>1. <<e>> \in Seq({e})
  OBVIOUS
<1> QED  BY <1>1, SeqIsSeq

LEMMA MadeFcn == \A deltas : IsFcn(Made(deltas))
BY MadeFacts

(* All of the events of an end, whatever the turn said before.             *)
LEMMA FinalLeads ==
  ASSUME NEW prior, IsTask(prior), NEW streams \in BOOLEAN, NEW started \in BOOLEAN,
         NEW deltas, IsSeq(deltas), ~started => deltas = <<>>,
         NEW task, Sound(task), NEW streamed, NEW b, b = Exchange!FinalTaskEvents(task, prior, started, streamed),
         NEW full, full = Exchange!Cleared(task, prior, streamed)
  PROVE  /\ IsSeq(b)
         /\ Leads(Running(prior, started, streams, Made(deltas), deltas), b,
                  Done(prior, streams, Made(deltas), deltas, full), streams)
<1> DEFINE A == full.artifacts
           given == GivenIds(A)
           held == Made(deltas)
           c == Updates(A, given)
           last == <<Exchange!StatusUpdate(full)>>
<1>1. Sound(full)
  BY FullFacts
<1>2. CASE ~ started
  <2>1. b = <<Exchange!TaskEvent(full)>>
    BY <1>2 DEF Exchange!FinalTaskEvents
  <2>silent. deltas = <<>> /\ IsTask(full)
    BY <1>1, <1>2 DEF Sound
  <2>leads. Leads(Fresh(prior, streams), <<Exchange!TaskEvent(full)>>, Done(prior, streams, Made(<<>>), <<>>, full), streams)
    BY <2>silent, AllLeads
  <2>fresh. Running(prior, started, streams, Made(deltas), deltas) = Fresh(prior, streams)
    BY <1>2 DEF Running
  <2> QED  BY <2>1, <2>silent, <2>leads, <2>fresh, OneSeq
<1>3. CASE started
  <2>1. b = c \o last
    BY <1>3, Zenon DEF Exchange!FinalTaskEvents, Updates, Update, GivenIds
  <2>2. AreAll(A, given)
    BY <1>1, GivenAll DEF Sound, IsTask, IsFcn
  <2>3. IsFcn(held)
    BY MadeFcn
  <2>4. IsSeq(last)
    BY OneSeq
  <2>5. Leads(Going(prior, streams, Exchange!Over(A, held), deltas), last, Done(prior, streams, held, deltas, full), streams)
    <3> HIDE DEF held
    <3> QED  BY EndsLeads
  <2> HIDE DEF held, given, A
  <2>6. IsSeq(c) /\ Leads(Going(prior, streams, held, deltas), c, Going(prior, streams, Exchange!Over(A, held), deltas), streams)
    BY <2>2, <2>3, GivenLeads
  <2>7. Running(prior, started, streams, held, deltas) = Going(prior, streams, held, deltas)
    BY <1>3 DEF Running
  <2> HIDE DEF c, last
  <2>8. Leads(Going(prior, streams, held, deltas), c \o last, Done(prior, streams, held, deltas, full), streams)
    BY <2>4, <2>5, <2>6, LeadsJoin
  <2>9. IsSeq(c \o last)
    BY <2>4, <2>6, JoinFacts
  <2> QED  BY <2>1, <2>7, <2>8, <2>9 DEF held
<1> QED  BY <1>2, <1>3

(* The answer that was streamed is closed first.                           *)
LEMMA ClosesLeads ==
  ASSUME NEW prior, NEW streams \in BOOLEAN, NEW deltas, IsSeq(deltas), deltas # <<>>
  PROVE  Leads(Going(prior, streams, Made(deltas), deltas), <<Exchange!ArtifactUpdate(Exchange!Answer, <<>>, TRUE)>>,
               Going(prior, streams, Made(deltas), deltas), streams)
<1>1. Made(deltas) = One(Exchange!Answer, Texts(deltas))
  BY MadeIs
<1>2. ASSUME NEW parts, parts = <<>>
      PROVE  Leads(Going(prior, streams, One(Exchange!Answer, Texts(deltas)), deltas),
               <<Exchange!ArtifactUpdate(Exchange!Answer, parts, TRUE)>>,
               Going(prior, streams, One(Exchange!Answer, Texts(deltas)), deltas), streams)
  <2>1. ASSUME NEW new, parts = <<>> /\ new = deltas
        PROVE  Leads(Going(prior, streams, One(Exchange!Answer, Texts(deltas)), deltas),
               <<Exchange!ArtifactUpdate(Exchange!Answer, parts, TRUE)>>,
               Going(prior, streams, One(Exchange!Answer, Texts(new)), new), streams)
    BY <2>1, GrowsLeads
  <2> QED  BY <1>2, <2>1
<1> QED  BY <1>1, <1>2

(* The events of a turn's end, with those of its answer.                   *)
Tells(streamed, deltas) == streamed = (deltas # <<>>)
Closing(streamed) == IF streamed THEN <<Exchange!ArtifactUpdate(Exchange!Answer, <<>>, TRUE)>> ELSE <<>>

LEMMA ConcludesLeads ==
  ASSUME NEW prior, IsTask(prior), NEW streams \in BOOLEAN, NEW started \in BOOLEAN,
         NEW deltas, IsSeq(deltas), ~started => deltas = <<>>,
         NEW task, Sound(task), NEW streamed, Tells(streamed, deltas),
         NEW b, b = Exchange!FinalTaskEvents(task, prior, started, streamed),
         NEW full, full = Exchange!Cleared(task, prior, streamed),
         NEW first, first = Closing(streamed)
  PROVE  /\ IsSeq(first) /\ IsSeq(b)
         /\ Leads(Running(prior, started, streams, Made(deltas), deltas), first,
                  Running(prior, started, streams, Made(deltas), deltas), streams)
         /\ Leads(Running(prior, started, streams, Made(deltas), deltas), b,
                  Done(prior, streams, Made(deltas), deltas, full), streams)
<1> DEFINE x == Running(prior, started, streams, Made(deltas), deltas)
           z == Done(prior, streams, Made(deltas), deltas, full)
<1>1. IsSeq(b) /\ Leads(x, b, z, streams)
  BY FinalLeads
<1>2. IsSeq(first) /\ Leads(x, first, x, streams)
  <2>1. CASE streamed
    <3>1. deltas # <<>> /\ started
      BY <2>1 DEF Tells
    <3>2. x = Going(prior, streams, Made(deltas), deltas)
      BY <3>1 DEF Running
    <3>3. first = <<Exchange!ArtifactUpdate(Exchange!Answer, <<>>, TRUE)>>
      BY <2>1 DEF Closing
    <3> HIDE DEF x
    <3> QED  BY <3>1, <3>2, <3>3, ClosesLeads, OneSeq
  <2>2. CASE ~ streamed
    <3>1. first = <<>>
      BY <2>2 DEF Closing
    <3> HIDE DEF x
    <3> QED  BY <3>1, LeadsNone, NoTexts
  <2> QED  BY <2>1, <2>2
<1> QED  BY <1>1, <1>2

--------------------------------------------------------------------------------
(* What both sides know.                                                   *)
LEMMA PlacesOf == ASSUME NEW s, IsSeq(s), NEW I, I \subseteq DOMAIN s  PROVE Places(I)
<1>1. DOMAIN s = 1 .. Len(s) /\ Len(s) \in Nat
  BY IsSeqFacts
<1> QED  BY <1>1 DEF Places

LEMMA PickSet ==
  ASSUME NEW s, IsSeq(s), NEW I, I \subseteq DOMAIN s
  PROVE  /\ IsSeq(Exchange!Pick(s, I))
         /\ Exchange!ToSet(Exchange!Pick(s, I)) = {s[i] : i \in I}
         /\ Exchange!Pick(s, I) = <<>> <=> I = {}
<1> DEFINE t == Pick(s, I)
<1>1. Places(I)
  BY PlacesOf
<1>2. IsSeq(t) /\ Same(t, s, I)
  BY <1>1, PickedIs
<1>3. Exchange!Pick(s, I) = t
  BY PickedSame
<1> HIDE DEF t
<1>4. DOMAIN t = 1 .. Len(t) /\ Len(t) \in Nat
  BY <1>2, IsSeqFacts
<1>5. {t[k] : k \in DOMAIN t} = {s[i] : i \in I}
  BY <1>2, <1>4 DEF Same
<1>6. Exchange!ToSet(t) = {s[i] : i \in I}
  BY <1>5 DEF Exchange!ToSet
<1>7. ASSUME t = <<>>  PROVE I = {}
  <2>1. {t[k] : k \in DOMAIN t} = {}
    BY <1>7
  <2>2. {s[i] : i \in I} = {}
    BY <1>5, <2>1
  <2> QED  BY <2>2
<1>8. ASSUME I = {}  PROVE t = <<>>
  BY <1>3, <1>8, PickNone
<1> QED  BY <1>2, <1>3, <1>6, <1>7, <1>8

Shared(catalogs) == Exchange!ToSet(catalogs) \cap AgentCatalogs

LEMMA NegotiatedIs ==
  ASSUME NEW catalogs, IsSeq(catalogs)
  PROVE  /\ IsSeq(Exchange!NegotiateCatalogs(catalogs))
         /\ Exchange!ToSet(Exchange!NegotiateCatalogs(catalogs)) = Shared(catalogs)
         /\ Exchange!NegotiateCatalogs(catalogs) = <<>> <=> Shared(catalogs) = {}
<1> DEFINE I == {i \in DOMAIN catalogs : catalogs[i] \in AgentCatalogs}
<1>1. {catalogs[i] : i \in I} = Shared(catalogs)
  BY DEF Shared, Exchange!ToSet
<1>2. I = {} <=> Shared(catalogs) = {}
  BY DEF Shared, Exchange!ToSet
<1>3. Exchange!NegotiateCatalogs(catalogs) = Exchange!Pick(catalogs, I)
  BY Zenon DEF Exchange!NegotiateCatalogs
<1>4. I \subseteq DOMAIN catalogs
  OBVIOUS
<1> HIDE DEF I
<1>5. /\ IsSeq(Exchange!Pick(catalogs, I))
      /\ Exchange!ToSet(Exchange!Pick(catalogs, I)) = {catalogs[i] : i \in I}
      /\ Exchange!Pick(catalogs, I) = <<>> <=> I = {}
  BY <1>4, PickSet
<1> QED  BY <1>1, <1>2, <1>3, <1>5

Understands(s, known) == s.catalog \in known \/ (s.catalog = None /\ known # {})
ShownOf(items, known) == Exchange!Pick(items, {i \in DOMAIN items : Understands(items[i], known)})

LEMMA FilterIs ==
  ASSUME NEW items, NEW catalogs, IsSeq(catalogs)
  PROVE  Exchange!FilterA2uiByCatalog(items, Exchange!NegotiateCatalogs(catalogs)) = ShownOf(items, Shared(catalogs))
<1> DEFINE agreed == Exchange!NegotiateCatalogs(catalogs)
           known == Shared(catalogs)
           Wanted(i) == (IF items[i].catalog = None THEN Head(agreed) ELSE items[i].catalog) \in Exchange!ToSet(agreed)
<1>1. IsSeq(agreed) /\ Exchange!ToSet(agreed) = known /\ (agreed = <<>> <=> known = {})
  BY NegotiatedIs
<1> HIDE DEF agreed, known
<1>2. CASE agreed = <<>>
  <2>1. {i \in DOMAIN items : Understands(items[i], known)} = {}
    BY <1>1, <1>2 DEF Understands
  <2>2. Exchange!FilterA2uiByCatalog(items, agreed) = <<>>
    BY <1>2 DEF Exchange!FilterA2uiByCatalog
  <2> QED  BY <2>1, <2>2, PickNone DEF ShownOf, agreed, known
<1>3. CASE agreed # <<>>
  <2>1. Head(agreed) \in known
    <3>1. Head(agreed) = agreed[1] /\ Len(agreed) # 0
      BY <1>1, <1>3, PopFacts
    <3>2. 1 \in DOMAIN agreed
      BY <1>1, <3>1, IsSeqFacts
    <3>3. agreed[1] \in Exchange!ToSet(agreed)
      BY <3>2 DEF Exchange!ToSet
    <3> QED  BY <1>1, <3>1, <3>3
  <2>2. \A i \in DOMAIN items : Wanted(i) <=> Understands(items[i], known)
    BY <1>1, <1>3, <2>1 DEF Understands
  <2>3. {i \in DOMAIN items : Wanted(i)} = {i \in DOMAIN items : Understands(items[i], known)}
    BY <2>2
  <2>4. Exchange!FilterA2uiByCatalog(items, agreed) = Exchange!Pick(items, {i \in DOMAIN items : Wanted(i)})
    BY <1>3, Zenon DEF Exchange!FilterA2uiByCatalog
  <2> HIDE DEF Wanted
  <2> QED  BY <2>3, <2>4, Zenon DEF ShownOf, agreed, known
<1> QED  BY <1>2, <1>3

--------------------------------------------------------------------------------
(* What the handler is given.                                              *)
IsRequest(request) == request.catalogs # None /\ IsSeq(request.catalogs) /\ IsSeq(request.modes)

LEMMA RequestsAre == \A request \in Requests : IsRequest(request)
<1> SUFFICES ASSUME NEW request \in Requests  PROVE IsRequest(request)
  OBVIOUS
<1>1. /\ request.catalogs # None
      /\ Len(request.catalogs) \in Nat /\ request.catalogs = [i \in 1 .. Len(request.catalogs) |-> request.catalogs[i]]
      /\ Len(request.modes) \in Nat /\ request.modes = [i \in 1 .. Len(request.modes) |-> request.modes[i]]
  BY ExchangeAssumption
<1>2. ASSUME NEW s, Len(s) \in Nat, s = [i \in 1 .. Len(s) |-> s[i]]  PROVE IsSeq(s)
  <2> DEFINE V == {s[i] : i \in 1 .. Len(s)}
             n == Len(s)
  <2>1. \A i \in 1 .. n : s[i] \in V
    OBVIOUS
  <2>2. n \in Nat /\ s = [i \in 1 .. n |-> s[i]]
    BY <1>2
  <2> HIDE DEF V, n
  <2>3. s \in Seq(V)
    BY <2>1, <2>2
  <2> QED  BY <2>3, SeqIsSeq
<1> QED  BY <1>1, <1>2 DEF IsRequest

LEMMA NegotiatedText ==
  ASSUME NEW modes, IsSeq(modes), NEW t, t = Exchange!NegotiateText(modes)
  PROVE  t \in Exchange!ToSet(modes) \cap AgentModes \/ t = PlainText
<1> DEFINE common == {i \in DOMAIN modes : modes[i] \in AgentModes}
<1>1. common \subseteq Nat
  BY IsSeqFacts
<1>2. ASSUME common # {}  PROVE Exchange!Min(common) \in common
  BY <1>1, <1>2, FirstIs
<1>3. CASE common = {}
  BY <1>3, Zenon DEF Exchange!NegotiateText
<1>4. CASE common # {}
  <2>1. t = modes[Exchange!Min(common)]
    BY <1>4, Zenon DEF Exchange!NegotiateText
  <2> QED  BY <1>2, <1>4, <2>1 DEF Exchange!ToSet
<1> QED  BY <1>3, <1>4

LEMMA Pair == ASSUME NEW a, NEW b  PROVE <<a>> \o <<b>> = <<a, b>> /\ IsSeq(<<a, b>>)
<1> DEFINE s == <<a>> \o <<b>>
           t == <<a, b>>
           u == <<a>>
           v == <<b>>
<1>1. IsSeq(u) /\ IsSeq(v)
  BY OneSeq
<1>2. Len(u) = 1 /\ Len(v) = 1 /\ u[1] = a /\ v[1] = b
  OBVIOUS
<1>3. s = u \o v
  OBVIOUS
<1> HIDE DEF s, u, v
<1>4. IsSeq(s) /\ Len(s) = 2 /\ s[1] = a /\ s[2] = b
  <2>1. /\ IsSeq(u \o v) /\ Len(u \o v) = Len(u) + Len(v)
        /\ \A i \in 1 .. Len(u) : (u \o v)[i] = u[i]
        /\ \A i \in 1 .. Len(v) : (u \o v)[Len(u) + i] = v[i]
    BY <1>1, JoinFacts
  <2>2. IsSeq(s) /\ Len(s) = 2 /\ (\A i \in 1 .. 1 : s[i] = u[i]) /\ (\A i \in 1 .. 1 : s[1 + i] = v[i])
    BY <1>2, <1>3, <2>1
  <2> QED  BY <1>2, <2>2
<1>5. t \in Seq({a, b}) /\ Len(t) = 2 /\ t[1] = a /\ t[2] = b
  OBVIOUS
<1> HIDE DEF t
<1>6. s = [i \in 1 .. 2 |-> s[i]] /\ t = [i \in 1 .. 2 |-> t[i]] /\ IsSeq(t)
  BY <1>4, <1>5, IsSeqFacts, SeqIsSeq
<1>7. \A i \in 1 .. 2 : s[i] = t[i]
  BY <1>4, <1>5
<1> QED  BY <1>6, <1>7 DEF s, t

LEMMA RequestRead ==
  ASSUME NEW request, IsRequest(request), NEW m, m = Exchange!BuildParams(request)
  PROVE  /\ Exchange!ReadClientCapabilities(m.metadata) = request.catalogs
         /\ Exchange!ParseA2AMessage(m).data = request.data
         /\ Exchange!ParseA2AMessage(m).action = request.action
         /\ request.confirm # None => Exchange!ParseA2AMessage(m).confirm = request.confirm
<1> DEFINE d == request.data
           q == Exchange!Text("query")
           x == Exchange!Data(d)
           parts == m.parts
           places == {i \in DOMAIN parts : parts[i].case = "data"}
           found == IF places = {} THEN None ELSE parts[Exchange!Min(places)].value
<1>1. /\ m.metadata.catalogs = IF request.catalogs = <<>> THEN None ELSE request.catalogs
      /\ m.metadata.action = request.action /\ m.metadata.ai37 = request.confirm
      /\ parts = <<q>> \o IF d = None THEN <<>> ELSE <<x>>
  BY DEF Exchange!BuildParams
<1>2. q.case = "text" /\ x.case = "data" /\ x.value = d
  BY DEF Exchange!Text, Exchange!Data
<1>3. Exchange!ReadClientCapabilities(m.metadata) = request.catalogs
  BY <1>1 DEF Exchange!ReadClientCapabilities, IsRequest
<1> HIDE DEF q, x, parts
<1>4. found = d
  <2>1. CASE d = None
    <3>1. parts = <<q>>
      BY <1>1, <2>1
    <3>2. places = {}
      BY <1>2, <3>1
    <3> QED  BY <2>1, <3>2
  <2>2. CASE d # None
    <3>1. parts = <<q, x>>
      <4>1. <<q>> \o <<x>> = <<q, x>>
        BY Pair
      <4>2. parts = <<q>> \o <<x>>
        BY <1>1, <2>2
      <4> QED  BY <4>1, <4>2
    <3>2. places = {2} /\ parts[2].value = d
      BY <1>2, <3>1
    <3>3. places \subseteq Nat /\ places # {}
      BY <3>2
    <3> HIDE DEF places
    <3>4. Exchange!Min(places) \in places
      BY <3>3, FirstIs
    <3> QED  BY <3>2, <3>3, <3>4
  <2> QED  BY <2>1, <2>2
<1>5. Exchange!ParseA2AMessage(m) = [data |-> found, action |-> m.metadata.action, confirm |-> Exchange!ReadAi37Metadata(m, found)]
  BY Zenon DEF Exchange!ParseA2AMessage, parts
<1> HIDE DEF found
<1>6. request.confirm # None => Exchange!ReadAi37Metadata(m, found) = request.confirm
  BY <1>1 DEF Exchange!ReadAi37Metadata
<1> QED  BY <1>1, <1>3, <1>4, <1>5, <1>6

LEMMA InputIs ==
  ASSUME NEW request, IsRequest(request), NEW task, NEW input, input = Exchange!Input(request, task)
  PROVE  /\ input.data = request.data /\ input.action = request.action
         /\ request.confirm # None => input.confirm = request.confirm
         /\ input.text \in Exchange!ToSet(request.modes) \cap AgentModes \/ input.text = PlainText
         /\ Exchange!ToSet(input.catalogs) = Shared(request.catalogs)
         /\ input.state = Exchange!TaskState(task)
         /\ input.catalogs = Exchange!NegotiateCatalogs(request.catalogs)
<1> DEFINE m == Exchange!BuildParams(request)
           read == Exchange!ParseA2AMessage(m)
           catalogs == Exchange!ReadClientCapabilities(m.metadata)
           output == Exchange!NegotiateOutput(request.modes, catalogs)
<1>1. /\ catalogs = request.catalogs /\ read.data = request.data /\ read.action = request.action
      /\ request.confirm # None => read.confirm = request.confirm
  BY RequestRead
<1>2. input = [state |-> Exchange!TaskState(task), data |-> read.data, action |-> read.action, confirm |-> read.confirm,
               text |-> output.text, catalogs |-> output.catalogs]
  BY Zenon DEF Exchange!Input
<1> HIDE DEF read, catalogs
<1>3. output.text = Exchange!NegotiateText(request.modes) /\ output.catalogs = Exchange!NegotiateCatalogs(request.catalogs)
  BY <1>1 DEF Exchange!NegotiateOutput
<1> HIDE DEF output
<1>4. /\ input.state = Exchange!TaskState(task) /\ input.data = read.data /\ input.action = read.action
      /\ input.confirm = read.confirm /\ input.text = output.text /\ input.catalogs = output.catalogs
  BY <1>2
<1>5. IsSeq(request.catalogs) /\ IsSeq(request.modes)
  BY DEF IsRequest
<1>6. Exchange!ToSet(input.catalogs) = Shared(request.catalogs)
  BY <1>3, <1>4, <1>5, NegotiatedIs
<1>7. input.text \in Exchange!ToSet(request.modes) \cap AgentModes \/ input.text = PlainText
  BY <1>3, <1>4, <1>5, NegotiatedText
<1> QED  BY <1>1, <1>3, <1>4, <1>6, <1>7

--------------------------------------------------------------------------------
(* The surfaces.                                                           *)
Surface(n, name, catalog, id) == [turn |-> n, name |-> name, catalog |-> catalog, id |-> id]
MadeIds == {"surf"} \X Nat
IdsApart(s) == \A i, j \in DOMAIN s : s[i].id # None => s[i].id \notin MadeIds /\ (s[i].id = s[j].id => i = j)
IsItems(s) == IsSeq(s) /\ (\A i \in DOMAIN s : s[i] = Surface(s[i].turn, s[i].name, s[i].catalog, s[i].id))
Names(s) == [i \in DOMAIN s |-> <<s[i].turn, s[i].name>>]

(* What is picked of surfaces are surfaces.                                *)
LEMMA ItemsPicked ==
  ASSUME NEW items, IsItems(items), NEW I, I \subseteq DOMAIN items
  PROVE  IsItems(Exchange!Pick(items, I)) /\ (IdsApart(items) => IdsApart(Exchange!Pick(items, I)))
<1> DEFINE t == Pick(items, I)
           c == Cardinality(I)
<1>1. IsSeq(items) /\ Places(I)
  BY PlacesOf DEF IsItems
<1>2. PICK p : Picks(p, items, I)
  BY <1>1, PickFacts
<1>3. /\ p \in [1 .. c -> I] /\ c \in Nat /\ t = [k \in 1 .. c |-> items[p[k]]]
      /\ \A k, l \in 1 .. c : k < l => p[k] < p[l]
  BY <1>2 DEF Picks
<1>4. IsSeq(t)
  BY <1>1, PickedIs
<1> HIDE DEF t, c
<1>5. DOMAIN t = 1 .. c /\ \A k \in 1 .. c : t[k] = items[p[k]] /\ p[k] \in DOMAIN items
  BY <1>3
<1>6. ASSUME NEW k \in DOMAIN t  PROVE t[k] = Surface(t[k].turn, t[k].name, t[k].catalog, t[k].id)
  BY <1>5 DEF IsItems
<1>7. ASSUME NEW k \in 1 .. c, NEW l \in 1 .. c, p[k] = p[l]  PROVE k = l
  <2>1. p[k] \in Int /\ p[l] \in Int
    <3>1. \A i \in DOMAIN items : i \in Int
      BY <1>1, IsSeqFacts
    <3> QED  BY <1>5, <3>1
  <2>2. ~ (k < l) /\ ~ (l < k)
    BY <1>3, <1>7, <2>1
  <2>3. k \in Int /\ l \in Int
    BY <1>3
  <2> QED  BY <2>2, <2>3
<1>8. ASSUME IdsApart(items)  PROVE IdsApart(t)
  <2>1. SUFFICES ASSUME NEW k \in 1 .. c, NEW l \in 1 .. c, t[k].id # None
                 PROVE  t[k].id \notin MadeIds /\ (t[k].id = t[l].id => k = l)
    BY <1>5 DEF IdsApart
  <2>2. t[k] = items[p[k]] /\ t[l] = items[p[l]] /\ p[k] \in DOMAIN items /\ p[l] \in DOMAIN items
    BY <1>5
  <2>3. t[k].id \notin MadeIds /\ (t[k].id = t[l].id => p[k] = p[l])
    BY <1>8, <2>1, <2>2 DEF IdsApart
  <2> QED  BY <1>7, <2>3
<1>9. Exchange!Pick(items, I) = t
  BY PickedSame DEF t
<1> QED  BY <1>4, <1>6, <1>8, <1>9 DEF IsItems

LEMMA ShownItems ==
  ASSUME NEW items, IsItems(items), NEW known
  PROVE  IsItems(ShownOf(items, known)) /\ (IdsApart(items) => IdsApart(ShownOf(items, known)))
<1> DEFINE I == {i \in DOMAIN items : Understands(items[i], known)}
<1>1. I \subseteq DOMAIN items
  OBVIOUS
<1> HIDE DEF I
<1>2. IsItems(Exchange!Pick(items, I)) /\ (IdsApart(items) => IdsApart(Exchange!Pick(items, I)))
  BY <1>1, ItemsPicked
<1> QED  BY <1>2 DEF ShownOf, I

(* Every surface of a form has an id of its own.                           *)
LEMMA FormIs ==
  ASSUME NEW items, IsItems(items), NEW form, form = Exchange!EnsureEnvelopeSurfaceIds(items)
  PROVE  /\ IsSeq(form) /\ Names(form) = Names(items)
         /\ IdsApart(items) => \A i, j \in DOMAIN form : form[i].id # None /\ (form[i].id = form[j].id => i = j)
<1> DEFINE D == DOMAIN items
           J == {j \in D : items[j].id = None}
           Id(i) == <<"surf", Rank(i, J)>>
           c == Cardinality(J)
<1>1. D = 1 .. Len(items) /\ Len(items) \in Nat
  BY IsSeqFacts DEF IsItems
<1>2. form = [i \in D |-> IF items[i].id # None THEN items[i] ELSE [items[i] EXCEPT !.id = Id(i)]]
  BY RankedSame, Zenon DEF Exchange!EnsureEnvelopeSurfaceIds
<1>3. \A j \in D : items[j] = Surface(items[j].turn, items[j].name, items[j].catalog, items[j].id)
  BY DEF IsItems
<1>4. /\ c \in Nat /\ \A i \in J : Rank(i, J) \in 1 .. c
      /\ \A i, j \in J : i < j => Rank(i, J) < Rank(j, J)
  <2> DEFINE n == Len(items)
  <2>1. n \in Nat /\ J \in SUBSET (1 .. n)
    BY <1>1
  <2> HIDE DEF n, J
  <2> QED  BY <2>1, RanksAreOnto
<1>5. J \subseteq D /\ \A j \in D : j \in J <=> items[j].id = None
  OBVIOUS
<1> HIDE DEF J, c
<1>6. \A i \in J : Id(i) \in MadeIds /\ Id(i) # None
  <2>1. \A i \in J : Rank(i, J) \in Nat
    BY <1>4
  <2>2. \A k \in Nat : <<"surf", k>> \in MadeIds
    BY DEF MadeIds
  <2>3. None \notin MadeIds
    BY ExchangeAssumption DEF MadeIds
  <2> QED  BY <2>1, <2>2, <2>3
<1>7. ASSUME NEW i \in J, NEW j \in J, Id(i) = Id(j)  PROVE i = j
  <2>1. Rank(i, J) = Rank(j, J)
    BY <1>7
  <2>2. Rank(i, J) \in Int /\ Rank(j, J) \in Int
    BY <1>4
  <2>3. i \in Int /\ j \in Int
    BY <1>1, <1>5
  <2>4. ~ (i < j) /\ ~ (j < i)
    BY <1>4, <2>1, <2>2
  <2> QED  BY <2>3, <2>4
<1> HIDE DEF Id
<1>8. ASSUME NEW i \in D
      PROVE  /\ form[i].turn = items[i].turn /\ form[i].name = items[i].name
             /\ form[i].id = IF i \in J THEN Id(i) ELSE items[i].id
  <2>1. CASE i \in J
    <3>1. form[i] = [items[i] EXCEPT !.id = Id(i)]
      BY <1>2, <1>5, <2>1
    <3>2. items[i] = Surface(items[i].turn, items[i].name, items[i].catalog, items[i].id)
      BY <1>3
    <3>3. \A y : [Surface(items[i].turn, items[i].name, items[i].catalog, items[i].id) EXCEPT !.id = y]
                   = Surface(items[i].turn, items[i].name, items[i].catalog, y)
      BY DEF Surface
    <3>4. form[i] = Surface(items[i].turn, items[i].name, items[i].catalog, Id(i))
      BY <3>1, <3>2, <3>3
    <3> QED  BY <2>1, <3>4 DEF Surface
  <2>2. CASE i \notin J
    BY <1>2, <1>5, <2>2
  <2> QED  BY <2>1, <2>2
<1>9. DOMAIN form = D /\ form = [i \in D |-> form[i]]
  BY <1>2
<1>10. IsSeq(form)
  <2> DEFINE V == {form[i] : i \in D}
  <2>1. \A i \in D : form[i] \in V
    OBVIOUS
  <2> HIDE DEF V
  <2>2. form \in Seq(V)
    BY <1>1, <1>9, <2>1
  <2> QED  BY <2>2, SeqIsSeq
<1>11. Names(form) = Names(items)
  <2>1. Names(form) = [i \in D |-> <<form[i].turn, form[i].name>>]
    BY <1>9 DEF Names
  <2>2. Names(items) = [i \in D |-> <<items[i].turn, items[i].name>>]
    BY DEF Names
  <2> HIDE DEF D
  <2> QED  BY <1>8, <2>1, <2>2
<1>12. ASSUME IdsApart(items), NEW i \in D, NEW j \in D
       PROVE  form[i].id # None /\ (form[i].id = form[j].id => i = j)
  <2>1. /\ form[i].id = IF i \in J THEN Id(i) ELSE items[i].id
        /\ form[j].id = IF j \in J THEN Id(j) ELSE items[j].id
    BY <1>8
  <2>2. /\ i \notin J => items[i].id # None /\ items[i].id \notin MadeIds
        /\ j \notin J => items[j].id # None /\ items[j].id \notin MadeIds
    BY <1>5, <1>12 DEF IdsApart
  <2>3. i \notin J /\ items[i].id = items[j].id => i = j
    BY <1>5, <1>12 DEF IdsApart
  <2> QED  BY <1>6, <1>7, <2>1, <2>2, <2>3
<1> QED  BY <1>9, <1>10, <1>11, <1>12

--------------------------------------------------------------------------------
(* The task of a result.                                                   *)
IsOutcome(r) ==
  /\ r.status \in {"completed", "failed", "input-required"} /\ r.message \in BOOLEAN /\ r.state \in BOOLEAN
  /\ IsItems(r.a2ui) /\ IsItems(r.followup)
  /\ r.status = "input-required" => IdsApart(r.a2ui) /\ IdsApart(r.followup)

What(r) == IF r.message THEN "message" ELSE IF r.status = "failed" THEN "error" ELSE "ask"
Saying(n, r) == <<Exchange!Text(Exchange!Said(n, What(r), 0))>>
Asked(r, known) == IF ShownOf(r.followup, known) # <<>> THEN ShownOf(r.followup, known) ELSE ShownOf(r.a2ui, known)
FormOf(r, known) == Exchange!EnsureEnvelopeSurfaceIds(Asked(r, known))

StateOf(n, r) == IF r.state /\ r.status # "failed" THEN n ELSE None
MessageOf(n, r, known) ==
  IF r.status = "input-required" THEN Saying(n, r) \o <<Exchange!Data(FormOf(r, known))>>
  ELSE IF r.message \/ r.status = "failed" THEN Saying(n, r) ELSE <<>>
ArtifactsOf(n, r, known, compat) ==
  IF r.status = "completed" THEN One(Exchange!ResultOf(n), <<Exchange!Data(ShownOf(r.a2ui, known))>>)
  ELSE IF r.status = "input-required" /\ compat THEN One(Exchange!Form, <<Exchange!Data(FormOf(r, known))>>)
  ELSE Exchange!NoArtifacts

LEMMA ToTaskIs ==
  ASSUME NEW n, NEW r, IsOutcome(r), NEW catalogs, IsSeq(catalogs), NEW compat \in BOOLEAN,
         NEW task, task = Exchange!ToTask(n, r, Exchange!NegotiateCatalogs(catalogs), compat)
  PROVE  task = Task(r.status, MessageOf(n, r, Shared(catalogs)), StateOf(n, r), ArtifactsOf(n, r, Shared(catalogs), compat))
<1> DEFINE agreed == Exchange!NegotiateCatalogs(catalogs)
           known == Shared(catalogs)
           a2ui == ShownOf(r.a2ui, known)
           followup == ShownOf(r.followup, known)
           form == FormOf(r, known)
           left == IF r.state THEN n ELSE None
<1>1. Exchange!FilterA2uiByCatalog(r.a2ui, agreed) = a2ui /\ Exchange!FilterA2uiByCatalog(r.followup, agreed) = followup
  BY FilterIs
<1>2. Exchange!EnsureEnvelopeSurfaceIds(IF followup # <<>> THEN followup ELSE a2ui) = form
  BY Zenon DEF FormOf, Asked
<1> HIDE DEF agreed, a2ui, followup, form
<1>3. task = CASE r.status = "failed" ->
                 [status |-> "failed", state |-> None,
                  message |-> Exchange!AgentMessage(n, IF r.message THEN "message" ELSE "error"), artifacts |-> Exchange!NoArtifacts]
             [] r.status = "input-required" ->
                 [status |-> "input-required", state |-> left,
                  message |-> Exchange!AgentMessage(n, IF r.message THEN "message" ELSE "ask") \o <<Exchange!Data(form)>>,
                  artifacts |-> [x \in IF compat THEN {Exchange!Form} ELSE {} |-> <<Exchange!Data(form)>>]]
             [] OTHER ->
                 [status |-> "completed", state |-> left,
                  message |-> IF r.message THEN Exchange!AgentMessage(n, "message") ELSE <<>>,
                  artifacts |-> [x \in {Exchange!ResultOf(n)} |-> <<Exchange!Data(a2ui)>>]]
  <2>1. task = LET aa == Exchange!FilterA2uiByCatalog(r.a2ui, agreed)
                   ff == Exchange!FilterA2uiByCatalog(r.followup, agreed)
                   gg == Exchange!EnsureEnvelopeSurfaceIds(IF ff # <<>> THEN ff ELSE aa)
                   ll == IF r.state THEN n ELSE None IN
             CASE r.status = "failed" ->
                 [status |-> "failed", state |-> None,
                  message |-> Exchange!AgentMessage(n, IF r.message THEN "message" ELSE "error"), artifacts |-> Exchange!NoArtifacts]
             [] r.status = "input-required" ->
                 [status |-> "input-required", state |-> ll,
                  message |-> Exchange!AgentMessage(n, IF r.message THEN "message" ELSE "ask") \o <<Exchange!Data(gg)>>,
                  artifacts |-> [x \in IF compat THEN {Exchange!Form} ELSE {} |-> <<Exchange!Data(gg)>>]]
             [] OTHER ->
                 [status |-> "completed", state |-> ll,
                  message |-> IF r.message THEN Exchange!AgentMessage(n, "message") ELSE <<>>,
                  artifacts |-> [x \in {Exchange!ResultOf(n)} |-> <<Exchange!Data(aa)>>]]
    BY Zenon DEF Exchange!ToTask, agreed
  <2> QED  BY <1>1, <1>2, <2>1, Zenon
<1>4. \A what : Exchange!AgentMessage(n, what) = <<Exchange!Text(Exchange!Said(n, what, 0))>>
  BY Zenon DEF Exchange!AgentMessage
<1>5. CASE r.status = "failed"
  <2>1. MessageOf(n, r, known) = Exchange!AgentMessage(n, IF r.message THEN "message" ELSE "error")
    BY <1>4, <1>5 DEF MessageOf, Saying, What, IsOutcome
  <2>2. StateOf(n, r) = None /\ ArtifactsOf(n, r, known, compat) = Exchange!NoArtifacts
    BY <1>5 DEF StateOf, ArtifactsOf
  <2> DEFINE message == Exchange!AgentMessage(n, IF r.message THEN "message" ELSE "error")
  <2>3. task = [status |-> "failed", state |-> None, message |-> message, artifacts |-> Exchange!NoArtifacts]
    BY <1>3, <1>5
  <2> HIDE DEF message
  <2>4. task = Task("failed", message, None, Exchange!NoArtifacts)
    BY <2>3 DEF Task
  <2> QED  BY <1>5, <2>1, <2>2, <2>4 DEF known, message
<1>6. CASE r.status = "input-required"
  <2> DEFINE message == Exchange!AgentMessage(n, IF r.message THEN "message" ELSE "ask") \o <<Exchange!Data(form)>>
             A == [x \in IF compat THEN {Exchange!Form} ELSE {} |-> <<Exchange!Data(form)>>]
  <2>1. MessageOf(n, r, known) = message
    <3>1. Saying(n, r) = Exchange!AgentMessage(n, IF r.message THEN "message" ELSE "ask")
      BY <1>4, <1>6 DEF Saying, What, IsOutcome
    <3> QED  BY <1>6, <3>1 DEF MessageOf, form
  <2>2. StateOf(n, r) = left
    BY <1>6 DEF StateOf
  <2>3. ArtifactsOf(n, r, known, compat) = A
    BY <1>6 DEF ArtifactsOf, form, One, Exchange!NoArtifacts
  <2>4. task = [status |-> "input-required", state |-> left, message |-> message, artifacts |-> A]
    BY <1>3, <1>6
  <2> HIDE DEF message, A, left
  <2>5. task = Task("input-required", message, left, A)
    BY <2>4 DEF Task
  <2> QED  BY <1>6, <2>1, <2>2, <2>3, <2>5 DEF known
<1>7. CASE r.status = "completed"
  <2> DEFINE message == IF r.message THEN Exchange!AgentMessage(n, "message") ELSE <<>>
             A == [x \in {Exchange!ResultOf(n)} |-> <<Exchange!Data(a2ui)>>]
  <2>1. MessageOf(n, r, known) = message
    BY <1>4, <1>7 DEF MessageOf, Saying, What
  <2>2. StateOf(n, r) = left
    BY <1>7 DEF StateOf
  <2>3. ArtifactsOf(n, r, known, compat) = A
    BY <1>7 DEF ArtifactsOf, a2ui, One
  <2>4. task = [status |-> "completed", state |-> left, message |-> message, artifacts |-> A]
    BY <1>3, <1>7
  <2> HIDE DEF message, A, left
  <2>5. task = Task("completed", message, left, A)
    BY <2>4 DEF Task
  <2> QED  BY <1>7, <2>1, <2>2, <2>3, <2>5 DEF known
<1> QED  BY <1>5, <1>6, <1>7 DEF IsOutcome

LEMMA ToTaskSound ==
  ASSUME NEW n \in 1 .. MaxAsked, NEW r, IsOutcome(r), NEW catalogs, IsSeq(catalogs), NEW compat \in BOOLEAN,
         NEW task, task = Exchange!ToTask(n, r, Exchange!NegotiateCatalogs(catalogs), compat)
  PROVE  Sound(task)
<1> DEFINE A == ArtifactsOf(n, r, Shared(catalogs), compat)
           message == MessageOf(n, r, Shared(catalogs))
           left == StateOf(n, r)
           f == <<Exchange!Data(FormOf(r, Shared(catalogs)))>>
           g == <<Exchange!Data(ShownOf(r.a2ui, Shared(catalogs)))>>
<1>1. task = Task(r.status, message, left, A)
  BY ToTaskIs
<1>2. A \in {One(Exchange!ResultOf(n), g), One(Exchange!Form, f), Exchange!NoArtifacts}
  BY DEF ArtifactsOf
<1>3. IsSeq(f) /\ IsSeq(g)
  BY OneSeq
<1>4. Exchange!ResultOf(n) \in Ids /\ Exchange!Form \in Ids
  BY IdsAre
<1> HIDE DEF A, message, left, f, g
<1>5. IsFcn(A) /\ DOMAIN A \subseteq Ids /\ \A a \in DOMAIN A : IsSeq(A[a])
  <2>1. CASE A = One(Exchange!ResultOf(n), g)
    BY <1>3, <1>4, <2>1 DEF One, IsFcn
  <2>2. CASE A = One(Exchange!Form, f)
    BY <1>3, <1>4, <2>2 DEF One, IsFcn
  <2>3. CASE A = Exchange!NoArtifacts
    BY <2>3, NothingFacts
  <2> QED  BY <1>2, <2>1, <2>2, <2>3
<1>6. task.status = r.status /\ task.message = message /\ task.state = left /\ task.artifacts = A
  BY <1>1, TaskFacts
<1> QED  BY <1>1, <1>5, <1>6 DEF Sound, IsTask, IsFcn

--------------------------------------------------------------------------------
(* What the caller finds in the task.                                      *)
Get(A, a) == IF a \in DOMAIN A THEN A[a] ELSE <<>>

LEMMA GetOver == \A f, g, a : Get(Exchange!Over(f, g), a) = IF a \in DOMAIN f THEN f[a] ELSE Get(g, a)
BY DEF Get, Exchange!Over

LEMMA PartsAreGot == \A task, a : Exchange!ArtifactParts(task, a) = Get(task.artifacts, a)
BY DEF Exchange!ArtifactParts, Get

LEMMA GetOne == \A a, s, x : Get(One(a, s), x) = IF x = a THEN s ELSE <<>>
BY DEF Get, One

LEMMA GetNone == \A x : Get(Exchange!NoArtifacts, x) = <<>>
BY DEF Get, Exchange!NoArtifacts

LEMMA GetGiven ==
  ASSUME NEW n, NEW r, IsOutcome(r), NEW known, NEW compat \in BOOLEAN, NEW A, A = ArtifactsOf(n, r, known, compat), NEW x
  PROVE  /\ Get(A, x) = IF r.status = "completed" /\ x = Exchange!ResultOf(n) THEN <<Exchange!Data(ShownOf(r.a2ui, known))>>
                        ELSE IF r.status = "input-required" /\ compat /\ x = Exchange!Form
                             THEN <<Exchange!Data(FormOf(r, known))>> ELSE <<>>
         /\ x \in DOMAIN A => x = Exchange!ResultOf(n) \/ x = Exchange!Form
<1> DEFINE f == <<Exchange!Data(FormOf(r, known))>>
           g == <<Exchange!Data(ShownOf(r.a2ui, known))>>
<1>1. A = IF r.status = "completed" THEN One(Exchange!ResultOf(n), g)
          ELSE IF r.status = "input-required" /\ compat THEN One(Exchange!Form, f) ELSE Exchange!NoArtifacts
  BY Zenon DEF ArtifactsOf
<1> HIDE DEF f, g
<1>2. Get(A, x) = IF r.status = "completed" /\ x = Exchange!ResultOf(n) THEN g
                        ELSE IF r.status = "input-required" /\ compat /\ x = Exchange!Form THEN f ELSE <<>>
  <2>1. CASE r.status = "completed"
    BY <1>1, <2>1, GetOne
  <2>2. CASE r.status = "input-required" /\ compat
    BY <1>1, <2>2, GetOne
  <2>3. CASE r.status # "completed" /\ ~ (r.status = "input-required" /\ compat)
    BY <1>1, <2>3, GetNone
  <2> QED  BY <2>1, <2>2, <2>3
<1>3. x \in DOMAIN A => x = Exchange!ResultOf(n) \/ x = Exchange!Form
  BY <1>1 DEF One, Exchange!NoArtifacts
<1> QED  BY <1>2, <1>3 DEF f, g

(* What the store and the caller hold of a turn that ended.                *)
Begins(base, prior) == base = prior \/ base = Exchange!NoTask
Gets(raw, x, A, deltas) ==
  /\ x = Exchange!Answer => Exchange!ArtifactParts(raw, x) = Texts(deltas)
  /\ x # Exchange!Answer => Exchange!ArtifactParts(raw, x) = Get(A, x)

LEMMA GetEnded ==
  ASSUME NEW n \in 1 .. MaxAsked, NEW r, IsOutcome(r), NEW known, NEW compat \in BOOLEAN,
         NEW task, Sound(task), NEW A, A = task.artifacts, A = ArtifactsOf(n, r, known, compat),
         NEW prior, NEW streamed, NEW deltas, Tells(streamed, deltas), Open(prior),
         NEW full, full = Exchange!Cleared(task, prior, streamed),
         NEW base, Begins(base, prior),
         NEW raw, raw = Ended(base, Made(deltas), full),
         NEW x \in Ids
  PROVE  Gets(raw, x, A, deltas)
<1> DEFINE S == Stale(task, prior, streamed)
           F == full.artifacts
           B == base.artifacts
           P == prior.artifacts
           held == Made(deltas)
<1>1. /\ DOMAIN F = DOMAIN A \cup S
      /\ \A a \in DOMAIN A : F[a] = A[a]
      /\ \A a \in S : F[a] = <<>>
  <2>1. Clears(full, task, prior, streamed)
    BY FullFacts
  <2> QED  BY <2>1 DEF Clears
<1>2. raw.artifacts = Exchange!Over(F, Exchange!Over(held, B))
  BY TaskFacts DEF Ended
<1>3. \A a : a \in S <=> /\ a \in {Exchange!Form, Exchange!Answer} /\ a \notin DOMAIN A
                         /\ Get(P, a) # <<>> /\ (a = Exchange!Answer => ~streamed)
  BY PartsAreGot DEF Stale
<1>3a. streamed = (deltas # <<>>)
  BY DEF Tells
<1>4. Get(B, x) = Get(P, x) \/ Get(B, x) = <<>>
  BY NothingFacts, GetNone DEF Begins
<1>5. x \notin {Exchange!Form, Exchange!Answer} => Get(P, x) = <<>>
  BY DEF Open, Get
<1>6. x \in DOMAIN A => x # Exchange!Answer
  BY GetGiven, IdsAre
<1> HIDE DEF S, F, B, P
<1>7. Exchange!ArtifactParts(raw, x) = IF x \in DOMAIN F THEN F[x] ELSE IF x \in DOMAIN held THEN held[x] ELSE Get(B, x)
  BY <1>2, PartsAreGot, GetOver
<1>8. x \in DOMAIN held <=> streamed /\ x = Exchange!Answer
  <2>1. CASE streamed
    <3>1. held = One(Exchange!Answer, Texts(deltas))
      BY <1>3a, <2>1, MadeIs
    <3>2. DOMAIN held = {Exchange!Answer}
      BY <3>1 DEF One
    <3> QED  BY <2>1, <3>2
  <2>2. CASE ~ streamed
    <3>1. deltas = <<>>
      BY <1>3a, <2>2
    <3> QED  BY <2>2, <3>1, NothingMade
  <2> QED  BY <2>1, <2>2
<1>9. x \in DOMAIN held => held[x] = Texts(deltas)
  BY <1>3a, <1>8, MadeIs, OneFacts
<1>10. ~ streamed => Texts(deltas) = <<>>
  BY <1>3a, NoTexts
<1>11. ASSUME x = Exchange!Answer  PROVE Exchange!ArtifactParts(raw, x) = Texts(deltas)
  BY <1>1, <1>3, <1>4, <1>6, <1>7, <1>8, <1>9, <1>10, <1>11
<1>12. ASSUME x # Exchange!Answer  PROVE Exchange!ArtifactParts(raw, x) = Get(A, x)
  <2>1. x \notin DOMAIN held
    BY <1>8, <1>12
  <2>2. CASE x \in DOMAIN A
    BY <1>1, <1>7, <2>2 DEF Get
  <2>3. CASE x \notin DOMAIN A
    <3>1. Get(A, x) = <<>>
      BY <2>3 DEF Get
    <3>2. CASE x \in S
      BY <1>1, <1>7, <3>1, <3>2
    <3>3. CASE x \notin S
      <4>1. x \notin DOMAIN F
        BY <1>1, <2>3, <3>3
      <4>2. Get(P, x) = <<>>
        BY <1>3, <1>5, <1>12, <2>3, <3>3
      <4> QED  BY <1>4, <1>7, <2>1, <3>1, <4>1, <4>2
    <3> QED  BY <3>2, <3>3
  <2> QED  BY <2>2, <2>3
<1> QED  BY <1>11, <1>12 DEF Gets

(* Sequences put together of which at most one is not empty.               *)
LEMMA FlattenAt ==
  ASSUME NEW s, IsSeq(s), NEW k \in 1 .. Len(s), IsSeq(s[k]), \A i \in 1 .. Len(s) : i # k => s[i] = <<>>
  PROVE  Exchange!FlattenSeq(s) = s[k]
<1> DEFINE S == {s[k][j] : j \in DOMAIN s[k]}
           n == Len(s)
<1>1. n \in Nat /\ DOMAIN s = 1 .. n /\ s = [i \in 1 .. n |-> s[i]]
  BY IsSeqFacts
<1>2. s[k] \in Seq(S)
  BY DEF IsSeq
<1> HIDE DEF S
<1>3. \A i \in 1 .. n : s[i] \in Seq(S)
  <2>1. SUFFICES ASSUME NEW i \in 1 .. n  PROVE s[i] \in Seq(S)
    OBVIOUS
  <2>2. CASE i = k
    BY <1>2, <2>2
  <2>3. CASE i # k
    <3>1. s[i] = <<>> /\ <<>> \in Seq(S)
      BY <2>3
    <3> QED  BY <3>1
  <2> QED  BY <2>2, <2>3
<1>4. s \in Seq(Seq(S))
  BY <1>1, <1>3
<1>5. k \in 1 .. n /\ Len(s) = n /\ \A i \in 1 .. n : i # k => s[i] = <<>>
  OBVIOUS
<1> HIDE DEF n
<1> QED  BY <1>1, <1>4, <1>5, FlattenOne

LEMMA FlattenNone == Exchange!FlattenSeq(<<>>) = <<>>
BY DEF Exchange!FlattenSeq

LEMMA FlattenSingle == ASSUME NEW s, IsSeq(s)  PROVE Exchange!FlattenSeq(<<s>>) = s
<1> DEFINE t == <<s>>
<1>1. IsSeq(t) /\ Len(t) = 1 /\ t[1] = s
  BY OneSeq
<1> HIDE DEF t
<1>2. 1 \in 1 .. Len(t) /\ IsSeq(t[1]) /\ \A i \in 1 .. Len(t) : i # 1 => t[i] = <<>>
  BY <1>1
<1>3. Exchange!FlattenSeq(t) = t[1]
  BY <1>1, <1>2, FlattenAt
<1> QED  BY <1>1, <1>3 DEF t

--------------------------------------------------------------------------------
(* The parts of what is said, by kind.                                     *)
LEMMA EmptyParts ==
  /\ Exchange!PartsText(<<>>) = <<>> /\ Exchange!PartsA2ui(<<>>) = <<>> /\ ~ Exchange!HasData(<<>>)
<1>1. \A case : OfCase(<<>>, case) = {}
  BY DEF OfCase
<1>2. \A case : Exchange!Values(<<>>, case) = <<>>
  BY <1>1, ValuesNone
<1>3. ~ Exchange!HasData(<<>>)
  BY DEF Exchange!HasData
<1> QED  BY <1>2, <1>3, FlattenNone DEF Exchange!PartsText, Exchange!PartsA2ui

LEMMA TextParts ==
  ASSUME NEW s, IsSeq(s)
  PROVE  Exchange!PartsText(Texts(s)) = s /\ Exchange!PartsA2ui(Texts(s)) = <<>> /\ ~ Exchange!HasData(Texts(s))
<1>1. Exchange!Values(Texts(s), "text") = s /\ Exchange!Values(Texts(s), "data") = <<>>
  BY TextsFacts
<1>2. ~ Exchange!HasData(Texts(s))
  BY DEF Exchange!HasData, Texts, Exchange!Text
<1> QED  BY <1>1, <1>2, FlattenNone DEF Exchange!PartsText, Exchange!PartsA2ui

LEMMA TextPart == \A x : Exchange!PartsText(<<Exchange!Text(x)>>) = <<x>> /\ ~ Exchange!HasData(<<Exchange!Text(x)>>)
<1> SUFFICES ASSUME NEW x  PROVE Exchange!PartsText(<<Exchange!Text(x)>>) = <<x>> /\ ~ Exchange!HasData(<<Exchange!Text(x)>>)
  OBVIOUS
<1> DEFINE s == <<x>>
<1>1. Texts(s) = <<Exchange!Text(x)>>
  BY DEF Texts
<1>2. IsSeq(s)
  BY OneSeq
<1> HIDE DEF s
<1>3. Exchange!PartsText(Texts(s)) = s /\ ~ Exchange!HasData(Texts(s))
  BY <1>2, TextParts
<1> QED  BY <1>1, <1>3 DEF s

LEMMA DataPart ==
  ASSUME NEW x, IsSeq(x)
  PROVE  Exchange!PartsText(<<Exchange!Data(x)>>) = <<>> /\ Exchange!PartsA2ui(<<Exchange!Data(x)>>) = x
<1> DEFINE d == Exchange!Data(x)
           parts == <<d>>
<1>1. d.case = "data" /\ d.value = x
  BY DEF Exchange!Data
<1>2. IsSeq(parts) /\ Len(parts) = 1 /\ parts[1] = d /\ DOMAIN parts = {1}
  BY OneSeq
<1> HIDE DEF d, parts
<1>3. OfCase(parts, "text") = {} /\ OfCase(parts, "data") = {1} /\ 1 \in 1 .. Len(parts)
  BY <1>1, <1>2 DEF OfCase
<1>4. Exchange!Values(parts, "text") = <<>>
  BY <1>3, ValuesNone
<1>5. Exchange!Values(parts, "data") = <<parts[1].value>>
  BY <1>2, <1>3, ValuesOne
<1>6. Exchange!Values(parts, "data") = <<x>>
  BY <1>1, <1>2, <1>5
<1>7. Exchange!FlattenSeq(<<x>>) = x
  BY FlattenSingle
<1> QED  BY <1>4, <1>6, <1>7 DEF Exchange!PartsText, Exchange!PartsA2ui, parts, d

IsPair(s, a, b) == s = <<a>> \o <<b>>

LEMMA PairIs ==
  ASSUME NEW a, NEW b, NEW s, IsPair(s, a, b)
  PROVE  IsSeq(s) /\ Len(s) = 2 /\ s[1] = a /\ s[2] = b /\ DOMAIN s = {1, 2}
<1> DEFINE t == <<a, b>>
<1>1. s = t /\ IsSeq(t)
  BY Pair DEF IsPair
<1>2. Len(t) = 2 /\ t[1] = a /\ t[2] = b /\ DOMAIN t = {1, 2}
  OBVIOUS
<1> HIDE DEF t
<1> QED  BY <1>1, <1>2

LEMMA TextAndData ==
  ASSUME NEW t, NEW x, IsSeq(x), NEW parts, IsPair(parts, Exchange!Text(t), Exchange!Data(x))
  PROVE  Exchange!PartsText(parts) = <<t>> /\ Exchange!PartsA2ui(parts) = x /\ Exchange!HasData(parts)
<1> DEFINE d == Exchange!Data(x)
           q == Exchange!Text(t)
<1>1. d.case = "data" /\ d.value = x /\ q.case = "text" /\ q.value = t
  BY DEF Exchange!Data, Exchange!Text
<1>2. IsPair(parts, q, d)
  OBVIOUS
<1> HIDE DEF d, q
<1>3. IsSeq(parts) /\ Len(parts) = 2 /\ parts[1] = q /\ parts[2] = d /\ DOMAIN parts = {1, 2}
  BY <1>2, PairIs
<1>4. OfCase(parts, "text") = {1} /\ OfCase(parts, "data") = {2} /\ 1 \in 1 .. Len(parts) /\ 2 \in 1 .. Len(parts)
  BY <1>1, <1>3 DEF OfCase
<1>5. IsSeq(parts)
  BY <1>3
<1>6. Exchange!Values(parts, "text") = <<parts[1].value>> /\ Exchange!Values(parts, "data") = <<parts[2].value>>
  <2>1. ASSUME NEW case, NEW k \in 1 .. Len(parts), OfCase(parts, case) = {k}
        PROVE  Exchange!Values(parts, case) = <<parts[k].value>>
    BY <1>5, <2>1, ValuesOne
  <2> QED  BY <1>4, <2>1
<1>7. Exchange!Values(parts, "text") = <<t>> /\ Exchange!Values(parts, "data") = <<x>>
  BY <1>1, <1>3, <1>6
<1>8. Exchange!FlattenSeq(<<x>>) = x
  BY FlattenSingle
<1>9. Exchange!HasData(parts)
  BY <1>1, <1>3 DEF Exchange!HasData
<1> QED  BY <1>7, <1>8, <1>9 DEF Exchange!PartsText, Exchange!PartsA2ui

Holds(raw, n, r, known, compat, deltas) ==
  /\ raw.status = r.status /\ raw.message = MessageOf(n, r, known)
  /\ \A x \in Ids : Exchange!ArtifactParts(raw, x)
                      = IF x = Exchange!Answer THEN Texts(deltas) ELSE Get(ArtifactsOf(n, r, known, compat), x)

LEMMA FormSeq ==
  ASSUME NEW r, IsOutcome(r), NEW known
  PROVE  /\ IsItems(Asked(r, known)) /\ IsItems(ShownOf(r.a2ui, known))
         /\ IsSeq(FormOf(r, known)) /\ IsSeq(ShownOf(r.a2ui, known))
         /\ r.status = "input-required" => IdsApart(Asked(r, known))
<1>1. /\ IsItems(ShownOf(r.a2ui, known)) /\ IsItems(ShownOf(r.followup, known))
      /\ r.status = "input-required" => IdsApart(ShownOf(r.a2ui, known)) /\ IdsApart(ShownOf(r.followup, known))
  BY ShownItems DEF IsOutcome
<1>2. IsItems(Asked(r, known)) /\ (r.status = "input-required" => IdsApart(Asked(r, known)))
  BY <1>1 DEF Asked
<1>3. IsSeq(FormOf(r, known))
  BY <1>2, FormIs DEF FormOf
<1> QED  BY <1>1, <1>2, <1>3 DEF IsItems

LEMMA MessageRead ==
  ASSUME NEW n, NEW r, IsOutcome(r), NEW known, NEW m, m = MessageOf(n, r, known)
  PROVE  /\ Exchange!PartsText(m) = IF r.message \/ r.status # "completed" THEN <<Exchange!Said(n, What(r), 0)>> ELSE <<>>
         /\ Exchange!HasData(m) <=> r.status = "input-required"
         /\ r.status = "input-required" => Exchange!PartsA2ui(m) = FormOf(r, known)
<1> DEFINE t == Exchange!Said(n, What(r), 0)
           f == FormOf(r, known)
<1>1. Saying(n, r) = <<Exchange!Text(t)>>
  BY Zenon DEF Saying
<1>2. IsSeq(f)
  BY FormSeq
<1>3. r.message \in BOOLEAN /\ r.status \in {"completed", "failed", "input-required"}
  BY DEF IsOutcome
<1>4. m = IF r.status = "input-required" THEN Saying(n, r) \o <<Exchange!Data(f)>>
          ELSE IF r.message \/ r.status = "failed" THEN Saying(n, r) ELSE <<>>
  BY Zenon DEF MessageOf
<1> HIDE DEF t, f
<1>5. CASE r.status = "input-required"
  <2>1. IsPair(m, Exchange!Text(t), Exchange!Data(f))
    BY <1>1, <1>4, <1>5 DEF IsPair
  <2>2. Exchange!PartsText(m) = <<t>> /\ Exchange!PartsA2ui(m) = f /\ Exchange!HasData(m)
    BY <1>2, <2>1, TextAndData
  <2> QED  BY <1>5, <2>2 DEF t, f
<1>6. CASE r.status # "input-required" /\ (r.message \/ r.status # "completed")
  <2>1. m = <<Exchange!Text(t)>>
    BY <1>1, <1>3, <1>4, <1>6
  <2>2. Exchange!PartsText(m) = <<t>> /\ ~ Exchange!HasData(m)
    BY <2>1, TextPart
  <2> QED  BY <1>6, <2>2 DEF t
<1>7. CASE r.status = "completed" /\ ~ r.message
  <2>1. m = <<>>
    BY <1>4, <1>7
  <2>2. Exchange!PartsText(m) = <<>> /\ ~ Exchange!HasData(m)
    BY <2>1, EmptyParts
  <2> QED  BY <1>7, <2>2
<1> QED  BY <1>3, <1>5, <1>6, <1>7

(* What is given carries no text, and its surfaces.                        *)
LEMMA GivenRead ==
  ASSUME NEW n, NEW r, IsOutcome(r), NEW known, NEW compat \in BOOLEAN, NEW x,
         NEW parts, parts = Get(ArtifactsOf(n, r, known, compat), x)
  PROVE  /\ Exchange!PartsText(parts) = <<>>
         /\ Exchange!PartsA2ui(parts) = IF r.status = "completed" /\ x = Exchange!ResultOf(n) THEN ShownOf(r.a2ui, known)
                                       ELSE IF r.status = "input-required" /\ compat /\ x = Exchange!Form THEN FormOf(r, known)
                                       ELSE <<>>
<1> DEFINE f == FormOf(r, known)
           g == ShownOf(r.a2ui, known)
           A == ArtifactsOf(n, r, known, compat)
<1>1. IsSeq(f) /\ IsSeq(g)
  BY FormSeq
<1>2. Get(A, x) = IF r.status = "completed" /\ x = Exchange!ResultOf(n) THEN <<Exchange!Data(g)>>
                  ELSE IF r.status = "input-required" /\ compat /\ x = Exchange!Form THEN <<Exchange!Data(f)>> ELSE <<>>
  BY GetGiven
<1> HIDE DEF f, g, A
<1>3. parts = Get(A, x)
  BY DEF A
<1>4. CASE r.status = "completed" /\ x = Exchange!ResultOf(n)
  <2>1. parts = <<Exchange!Data(g)>>
    BY <1>2, <1>3, <1>4
  <2>2. Exchange!PartsText(parts) = <<>> /\ Exchange!PartsA2ui(parts) = g
    BY <1>1, <2>1, DataPart
  <2> QED  BY <1>4, <2>2 DEF g
<1>5. CASE r.status = "input-required" /\ compat /\ x = Exchange!Form
  <2>1. parts = <<Exchange!Data(f)>>
    BY <1>2, <1>3, <1>5
  <2>2. Exchange!PartsText(parts) = <<>> /\ Exchange!PartsA2ui(parts) = f
    BY <1>1, <2>1, DataPart
  <2> QED  BY <1>5, <2>2 DEF f
<1>6. CASE ~ (r.status = "completed" /\ x = Exchange!ResultOf(n)) /\ ~ (r.status = "input-required" /\ compat /\ x = Exchange!Form)
  <2>1. parts = <<>>
    BY <1>2, <1>3, <1>6
  <2> QED  BY <1>6, <2>1, EmptyParts
<1> QED  BY <1>4, <1>5, <1>6

LEMMA SeqMade ==
  ASSUME NEW n \in Nat, NEW s, s = [i \in 1 .. n |-> s[i]]
  PROVE  IsSeq(s) /\ Len(s) = n
<1> DEFINE V == {s[i] : i \in 1 .. n}
<1>1. \A i \in 1 .. n : s[i] \in V
  OBVIOUS
<1> HIDE DEF V
<1>2. s \in Seq(V) /\ Len(s) = n
  BY <1>1
<1> QED  BY <1>2, SeqIsSeq

(* The text is the message of the status, or what was streamed.            *)
LEMMA TextRead ==
  ASSUME NEW n, NEW r, IsOutcome(r), NEW known, NEW compat \in BOOLEAN, NEW deltas, IsSeq(deltas),
         NEW raw, Holds(raw, n, r, known, compat, deltas)
  PROVE  Exchange!CollectTaskText(raw)
           = IF r.message \/ r.status # "completed" THEN <<Exchange!Said(n, What(r), 0)>> ELSE deltas
<1> DEFINE all == Exchange!Artifacts
           s == [i \in DOMAIN all |-> Exchange!PartsText(Exchange!ArtifactParts(raw, all[i]))]
           t == Exchange!Said(n, What(r), 0)
           m == MessageOf(n, r, known)
           A == ArtifactsOf(n, r, known, compat)
<1>1. /\ raw.message = m
      /\ \A x \in Ids : Exchange!ArtifactParts(raw, x) = IF x = Exchange!Answer THEN Texts(deltas) ELSE Get(A, x)
  BY DEF Holds
<1>2. Exchange!PartsText(m) = IF r.message \/ r.status # "completed" THEN <<t>> ELSE <<>>
  BY MessageRead
<1>3. \A x : Exchange!PartsText(Get(A, x)) = <<>>
  <2>1. SUFFICES ASSUME NEW x  PROVE Exchange!PartsText(Get(A, x)) = <<>>
    OBVIOUS
  <2> DEFINE parts == Get(A, x)
  <2>2. parts = Get(ArtifactsOf(n, r, known, compat), x)
    OBVIOUS
  <2> HIDE DEF parts, A
  <2>3. Exchange!PartsText(parts) = <<>>
    BY <2>2, GivenRead
  <2> QED  BY <2>3 DEF parts
<1>4. Exchange!PartsText(Texts(deltas)) = deltas
  BY TextParts
<1> HIDE DEF m, A
<1>5. DOMAIN all = 1 .. MaxAsked + 2 /\ MaxAsked \in Nat /\ all[2] = Exchange!Answer
  BY ArtifactsAre, IsSeqFacts
<1>6. \A i \in DOMAIN all : all[i] \in Ids /\ (i # 2 => all[i] # Exchange!Answer)
  <2>1. SUFFICES ASSUME NEW i \in DOMAIN all  PROVE all[i] \in Ids /\ (i # 2 => all[i] # Exchange!Answer)
    OBVIOUS
  <2>2. all[i] \in Ids
    BY DEF Ids
  <2>3. CASE i = 1
    BY <2>2, <2>3, ArtifactsAre, IdsAre
  <2>4. CASE i # 1 /\ i # 2
    <3>1. i - 2 \in 1 .. MaxAsked /\ (i - 2) + 2 = i
      BY <1>5, <2>4
    <3>2. all[(i - 2) + 2] = Exchange!ResultOf(i - 2)
      BY <3>1, ArtifactsAre
    <3> QED  BY <2>2, <3>1, <3>2, IdsAre
  <2> QED  BY <2>2, <2>3, <2>4
<1> HIDE DEF all
<1>7. /\ s[2] = deltas
      /\ \A i \in 1 .. MaxAsked + 2 : i # 2 => s[i] = <<>>
  <2>1. 2 \in DOMAIN all
    BY <1>5
  <2>2. s[2] = deltas
    BY <1>1, <1>4, <1>5, <1>6, <2>1
  <2>3. ASSUME NEW i \in 1 .. MaxAsked + 2, i # 2  PROVE s[i] = <<>>
    BY <1>1, <1>3, <1>5, <1>6, <2>3
  <2> QED  BY <2>2, <2>3
<1>8. IsSeq(s) /\ Len(s) = MaxAsked + 2
  <2>1. s = [i \in 1 .. MaxAsked + 2 |-> s[i]] /\ MaxAsked + 2 \in Nat
    BY <1>5
  <2> HIDE DEF s
  <2> QED  BY <2>1, SeqMade
<1> DEFINE whole == Exchange!FlattenSeq(s)
<1>9. whole = deltas
  <2> HIDE DEF s
  <2>1. 2 \in 1 .. Len(s) /\ IsSeq(s[2]) /\ \A i \in 1 .. Len(s) : i # 2 => s[i] = <<>>
    BY <1>5, <1>7, <1>8
  <2> DEFINE k == 2
  <2>2. k \in 1 .. Len(s) /\ IsSeq(s[k]) /\ \A i \in 1 .. Len(s) : i # k => s[i] = <<>>
    BY <2>1
  <2> HIDE DEF k
  <2>3. Exchange!FlattenSeq(s) = s[k]
    BY <1>8, <2>2, FlattenAt
  <2> QED  BY <1>7, <2>3 DEF k
<1>10. Exchange!CollectTaskText(raw) = IF Exchange!PartsText(raw.message) # <<>> THEN Exchange!PartsText(raw.message) ELSE whole
  BY Zenon DEF Exchange!CollectTaskText, all
<1> HIDE DEF whole, t
<1>11. <<t>> # <<>>
  OBVIOUS
<1> QED  BY <1>1, <1>2, <1>9, <1>10, <1>11 DEF t

ResultPlaces == {i \in DOMAIN Exchange!Artifacts : Exchange!IsResult(Exchange!Artifacts[i])}

LEMMA ArtifactsApart ==
  ASSUME NEW i \in DOMAIN Exchange!Artifacts, NEW j \in DOMAIN Exchange!Artifacts, Exchange!Artifacts[i] = Exchange!Artifacts[j]
  PROVE  i = j
<1> DEFINE all == Exchange!Artifacts
<1>1. DOMAIN all = 1 .. MaxAsked + 2 /\ MaxAsked \in Nat
  BY ArtifactsAre, IsSeqFacts
<1>2. /\ all[1] = Exchange!Form /\ all[2] = Exchange!Answer
      /\ \A n \in 1 .. MaxAsked : all[n + 2] = Exchange!ResultOf(n)
  BY ArtifactsAre
<1> HIDE DEF all
<1>3. ASSUME NEW l \in DOMAIN all, l # 1, l # 2
      PROVE  l - 2 \in 1 .. MaxAsked /\ all[l] = Exchange!ResultOf(l - 2)
  <2>1. l - 2 \in 1 .. MaxAsked /\ (l - 2) + 2 = l
    BY <1>1, <1>3
  <2> QED  BY <1>2, <2>1
<1>4. i \in DOMAIN all /\ j \in DOMAIN all /\ all[i] = all[j]
  BY DEF all
<1>5. i \in Int /\ j \in Int
  BY <1>1, <1>4
<1>6. CASE i \in {1, 2}
  <2>1. j \in {1, 2}
    BY <1>2, <1>3, <1>4, <1>6, IdsAre
  <2> QED  BY <1>2, <1>4, <1>6, <2>1, IdsAre
<1>7. CASE i \notin {1, 2}
  <2>1. j \notin {1, 2}
    BY <1>2, <1>3, <1>4, <1>7, IdsAre
  <2>2. i - 2 = j - 2
    BY <1>3, <1>4, <1>7, <2>1, IdsAre
  <2> QED  BY <1>5, <2>2
<1> QED  BY <1>6, <1>7

(* The artifacts that are results, without the copy of the form.           *)
LEMMA OthersAre ==
  ASSUME NEW others, others = Exchange!Pick(Exchange!Artifacts, ResultPlaces)
  PROVE  /\ IsSeq(others)
         /\ \A k \in DOMAIN others : others[k] \in Ids /\ others[k] # Exchange!Form
         /\ \A k, l \in DOMAIN others : others[k] = others[l] => k = l
         /\ \A x \in Ids : x # Exchange!Form => \E k \in DOMAIN others : others[k] = x
<1> DEFINE all == Exchange!Artifacts
           I == ResultPlaces
           c == Cardinality(I)
<1>1. DOMAIN all = 1 .. Len(all) /\ Len(all) \in Nat /\ IsSeq(all)
  BY ArtifactsAre, IsSeqFacts
<1>2. I \subseteq DOMAIN all /\ \A i \in DOMAIN all : i \in I <=> all[i] # Exchange!Form
  BY DEF ResultPlaces, Exchange!IsResult
<1>3. others = Pick(all, I)
  BY PickedSame
<1>4. \A x : x \in Ids <=> \E i \in DOMAIN all : all[i] = x
  BY DEF Ids
<1>5. \A i, j \in DOMAIN all : all[i] = all[j] => i = j
  BY ArtifactsApart
<1> HIDE DEF all, I
<1>6. Places(I)
  BY <1>1, <1>2, PlacesOf
<1>7. IsSeq(others)
  BY <1>3, <1>6, PickedIs
<1>8. PICK p : Picks(p, all, I)
  BY <1>6, PickFacts
<1>9. /\ p \in [1 .. c -> I] /\ c \in Nat /\ others = [k \in 1 .. c |-> all[p[k]]]
      /\ \A k, l \in 1 .. c : k < l => p[k] < p[l]
      /\ \A i \in I : \E k \in 1 .. c : p[k] = i
  BY <1>3, <1>8 DEF Picks
<1> HIDE DEF c
<1>10. DOMAIN others = 1 .. c /\ \A k \in 1 .. c : others[k] = all[p[k]] /\ p[k] \in I
  BY <1>9
<1>11. \A k \in 1 .. c : others[k] \in Ids /\ others[k] # Exchange!Form
  BY <1>2, <1>4, <1>10
<1>12. ASSUME NEW k \in 1 .. c, NEW l \in 1 .. c, others[k] = others[l]  PROVE k = l
  <2>1. p[k] = p[l]
    BY <1>2, <1>5, <1>10, <1>12
  <2>2. p[k] \in Int /\ k \in Int /\ l \in Int
    BY <1>1, <1>2, <1>9, <1>10
  <2>3. ~ (k < l) /\ ~ (l < k)
    BY <1>9, <2>1, <2>2
  <2> QED  BY <2>2, <2>3
<1>13. ASSUME NEW x \in Ids, x # Exchange!Form  PROVE \E k \in 1 .. c : others[k] = x
  <2>1. PICK i \in DOMAIN all : all[i] = x
    BY <1>4
  <2>2. i \in I
    BY <1>2, <1>13, <2>1
  <2>3. PICK k \in 1 .. c : p[k] = i
    BY <1>9, <2>2
  <2> QED  BY <1>10, <2>1, <2>3
<1> QED  BY <1>7, <1>10, <1>11, <1>12, <1>13

(* The surfaces are those of the result, or of the form.                   *)
LEMMA A2uiRead ==
  ASSUME NEW n \in 1 .. MaxAsked, NEW r, IsOutcome(r), NEW known, NEW compat \in BOOLEAN, NEW deltas, IsSeq(deltas),
         NEW raw, Holds(raw, n, r, known, compat, deltas)
  PROVE  Exchange!ExtractA2ui(raw) = IF r.status = "completed" THEN ShownOf(r.a2ui, known)
                                     ELSE IF r.status = "input-required" THEN FormOf(r, known) ELSE <<>>
<1> DEFINE others == Exchange!Pick(Exchange!Artifacts, ResultPlaces)
           s == [k \in DOMAIN others |-> Exchange!PartsA2ui(Exchange!ArtifactParts(raw, others[k]))]
           g == ShownOf(r.a2ui, known)
           f == FormOf(r, known)
           m == MessageOf(n, r, known)
           A == ArtifactsOf(n, r, known, compat)
           whole == Exchange!FlattenSeq(s)
           shown == Exchange!FormA2ui(raw)
<1>1. /\ raw.message = m
      /\ \A x \in Ids : Exchange!ArtifactParts(raw, x) = IF x = Exchange!Answer THEN Texts(deltas) ELSE Get(A, x)
  BY DEF Holds
<1>2. (Exchange!HasData(m) <=> r.status = "input-required") /\ (r.status = "input-required" => Exchange!PartsA2ui(m) = f)
  BY MessageRead
<1>3. \A x : Exchange!PartsA2ui(Get(A, x)) = IF r.status = "completed" /\ x = Exchange!ResultOf(n) THEN g
                                ELSE IF r.status = "input-required" /\ compat /\ x = Exchange!Form THEN f ELSE <<>>
  <2>1. SUFFICES ASSUME NEW x
                 PROVE  Exchange!PartsA2ui(Get(A, x)) = IF r.status = "completed" /\ x = Exchange!ResultOf(n) THEN g
                                ELSE IF r.status = "input-required" /\ compat /\ x = Exchange!Form THEN f ELSE <<>>
    OBVIOUS
  <2> DEFINE parts == Get(A, x)
  <2>2. parts = Get(ArtifactsOf(n, r, known, compat), x)
    OBVIOUS
  <2> HIDE DEF parts, A
  <2>3. Exchange!PartsA2ui(parts) = IF r.status = "completed" /\ x = Exchange!ResultOf(n) THEN g
                                ELSE IF r.status = "input-required" /\ compat /\ x = Exchange!Form THEN f ELSE <<>>
    BY <2>2, GivenRead
  <2> QED  BY <2>3 DEF parts
<1>4. Exchange!PartsA2ui(Texts(deltas)) = <<>>
  BY TextParts
<1>5. IsSeq(g) /\ IsSeq(f) /\ IsSeq(<<>>)
  BY FormSeq, NoTexts
<1>6. r.status \in {"completed", "failed", "input-required"}
  BY DEF IsOutcome
<1> HIDE DEF m, A, g, f
<1>7. /\ IsSeq(others)
      /\ \A k \in DOMAIN others : others[k] \in Ids /\ others[k] # Exchange!Form
      /\ \A k, l \in DOMAIN others : others[k] = others[l] => k = l
      /\ \A x \in Ids : x # Exchange!Form => \E k \in DOMAIN others : others[k] = x
  BY OthersAre
<1>8. Exchange!ResultOf(n) \in Ids /\ Exchange!ResultOf(n) # Exchange!Form /\ Exchange!ResultOf(n) # Exchange!Answer
      /\ Exchange!Form \in Ids /\ Exchange!Form # Exchange!Answer
  BY IdsAre
<1>9. Exchange!ExtractA2ui(raw) = whole \o shown
  BY Zenon DEF Exchange!ExtractA2ui, ResultPlaces
<1> HIDE DEF others
<1>10. PICK k \in DOMAIN others : others[k] = Exchange!ResultOf(n)
  BY <1>7, <1>8
<1>11. \A l \in DOMAIN others : s[l] = IF r.status = "completed" /\ l = k THEN g ELSE <<>>
  <2>1. SUFFICES ASSUME NEW l \in DOMAIN others  PROVE s[l] = IF r.status = "completed" /\ l = k THEN g ELSE <<>>
    OBVIOUS
  <2> DEFINE x == others[l]
  <2>2. s[l] = Exchange!PartsA2ui(Exchange!ArtifactParts(raw, x)) /\ x \in Ids /\ x # Exchange!Form
        /\ (x = Exchange!ResultOf(n) <=> l = k)
    BY <1>7, <1>10
  <2> HIDE DEF x, s
  <2> QED  BY <1>1, <1>3, <1>4, <1>8, <2>2
<1>12. IsSeq(s) /\ DOMAIN s = DOMAIN others /\ k \in 1 .. Len(s) /\ DOMAIN s = 1 .. Len(s)
  <2>1. DOMAIN others = 1 .. Len(others) /\ Len(others) \in Nat
    BY <1>7, IsSeqFacts
  <2> DEFINE c == Len(others)
  <2>2. s = [l \in 1 .. c |-> s[l]] /\ c \in Nat /\ DOMAIN s = 1 .. c
    BY <2>1
  <2> HIDE DEF s, c
  <2>3. IsSeq(s) /\ Len(s) = c
    BY <2>2, SeqMade
  <2> QED  BY <2>1, <2>2, <2>3, <1>10 DEF c
<1> HIDE DEF s
<1>13. whole = IF r.status = "completed" THEN g ELSE <<>>
  <2>1. IsSeq(s[k]) /\ \A l \in 1 .. Len(s) : l # k => s[l] = <<>>
    BY <1>5, <1>11, <1>12
  <2>2. Exchange!FlattenSeq(s) = s[k]
    BY <1>12, <2>1, FlattenAt
  <2> QED  BY <1>10, <1>11, <2>2
<1>14. shown = IF r.status = "input-required" THEN f ELSE <<>>
  <2>1. shown = Exchange!PartsA2ui(IF Exchange!HasData(raw.message) THEN raw.message ELSE Exchange!ArtifactParts(raw, Exchange!Form))
    BY Zenon DEF Exchange!FormA2ui
  <2>2. CASE r.status = "input-required"
    BY <1>1, <1>2, <2>1, <2>2
  <2>3. CASE r.status # "input-required"
    <3>1. shown = Exchange!PartsA2ui(Get(A, Exchange!Form))
      BY <1>1, <1>2, <1>8, <2>1, <2>3
    <3> QED  BY <1>3, <1>8, <2>3, <3>1
  <2> QED  BY <2>2, <2>3
<1> HIDE DEF whole, shown
<1>15. \A q : IsSeq(q) => q \o <<>> = q /\ <<>> \o q = q
  BY DEF IsSeq
<1>16. IsSeq(<<>>)
  BY <1>5
<1>17. CASE r.status = "completed"
  BY <1>5, <1>9, <1>13, <1>14, <1>15, <1>17 DEF g
<1>18. CASE r.status = "input-required"
  BY <1>5, <1>9, <1>13, <1>14, <1>15, <1>18 DEF f
<1>19. CASE r.status = "failed"
  BY <1>9, <1>13, <1>14, <1>15, <1>16, <1>19
<1> QED  BY <1>6, <1>17, <1>18, <1>19

--------------------------------------------------------------------------------
(* What the events of a turn leave as it is.                               *)
LEMMA TaskAgain == \A s, m, st, A : IsFcn(A) => IsTask(Task(s, m, st, A))
BY TaskFacts DEF IsTask, IsFcn

LEMMA OverFcn == \A f, g : IsFcn(Exchange!Over(f, g)) /\ DOMAIN Exchange!Over(f, g) = DOMAIN f \cup DOMAIN g
BY DEF Exchange!Over, IsFcn

LEMMA ArtifactIn ==
  ASSUME NEW s, NEW m, NEW st, NEW A, NEW e
  PROVE  \E parts : Exchange!ApplyArtifact(Task(s, m, st, A), e) = Task(s, m, st, Exchange!Over(One(e.id, parts), A))
<1> DEFINE task == Task(s, m, st, A)
           held == (IF e.append THEN Exchange!ArtifactParts(task, e.id) ELSE <<>>) \o e.parts
<1>1. Exchange!ApplyArtifact(task, e) = [task EXCEPT !.artifacts = Exchange!Over(One(e.id, held), task.artifacts)]
  BY Zenon DEF Exchange!ApplyArtifact, One
<1>2. task.artifacts = A
  BY TaskFacts
<1> HIDE DEF held
<1>3. \A B : [Task(s, m, st, A) EXCEPT !.artifacts = B] = Task(s, m, st, B)
  BY DEF Task
<1>4. Exchange!ApplyArtifact(task, e) = [task EXCEPT !.artifacts = Exchange!Over(One(e.id, held), A)]
  BY <1>1, <1>2
<1>5. Exchange!ApplyArtifact(task, e) = Task(s, m, st, Exchange!Over(One(e.id, held), A))
  BY <1>3, <1>4
<1> QED  BY <1>5

LEMMA ApplyShape ==
  ASSUME NEW task, IsTask(task), NEW e
  PROVE  IsTask(Exchange!Apply(task, e))
<1> DEFINE s == task.status
           m == task.message
           st == task.state
           A == task.artifacts
           now == Exchange!ApplyStatus(task, e.task)
           B == Exchange!Over(e.task.artifacts, now.artifacts)
<1>1. task = Task(s, m, st, A) /\ IsFcn(A)
  BY DEF IsTask, IsFcn
<1> HIDE DEF s, m, st, A
<1>2. Exchange!Apply(task, e) = CASE e.case = "artifactUpdate" -> Exchange!ApplyArtifact(task, e)
                                  [] e.case = "statusUpdate" -> now
                                  [] OTHER -> [now EXCEPT !.artifacts = B]
  BY Zenon DEF Exchange!Apply
<1>3. CASE e.case = "artifactUpdate"
  <2>1. PICK parts : Exchange!ApplyArtifact(Task(s, m, st, A), e) = Task(s, m, st, Exchange!Over(One(e.id, parts), A))
    BY ArtifactIn
  <2> DEFINE C == Exchange!Over(One(e.id, parts), A)
  <2>2. IsFcn(C)
    BY OverFcn
  <2>3. Exchange!Apply(task, e) = Task(s, m, st, C)
    BY <1>1, <1>2, <1>3, <2>1
  <2> HIDE DEF C
  <2> QED  BY <2>2, <2>3, TaskAgain
<1>4. CASE e.case = "statusUpdate"
  <2> DEFINE u == e.task
  <2>1. now = Task(u.status, u.message, State(u, st), A)
    BY <1>1, StatusTaken
  <2>2. Exchange!Apply(task, e) = now
    BY <1>2, <1>4
  <2> HIDE DEF now, u
  <2> QED  BY <1>1, <2>1, <2>2, TaskAgain
<1>5. CASE e.case # "artifactUpdate" /\ e.case # "statusUpdate"
  <2> DEFINE u == e.task
  <2>1. IsFcn(B)
    BY OverFcn
  <2>2. Exchange!Apply(task, e) = [now EXCEPT !.artifacts = B]
    BY <1>2, <1>5
  <2> HIDE DEF B
  <2>3. [now EXCEPT !.artifacts = B] = Task(u.status, u.message, State(u, st), B)
    <3> DEFINE x == u.status
               y == u.message
               q == State(u, st)
    <3>1. now = Task(x, y, q, A)
      BY <1>1, StatusTaken
    <3> HIDE DEF now, x, y, q, u
    <3>2. \A D : [Task(x, y, q, A) EXCEPT !.artifacts = D] = Task(x, y, q, D)
      BY DEF Task
    <3> QED  BY <3>1, <3>2 DEF x, y, q
  <2> HIDE DEF u, now
  <2> QED  BY <2>1, <2>2, <2>3, TaskAgain
<1> QED  BY <1>3, <1>4, <1>5

Keeps(task, next) ==
  /\ task.status \notin Exchange!Terminal => next.status \notin Exchange!Terminal
  /\ next.state = task.state /\ (Open(task) => Open(next))

LEMMA ProgressKeeps ==
  ASSUME NEW task, IsTask(task), NEW e, IsProgress(e), NEW next, next = Exchange!Apply(task, e)
  PROVE  Keeps(task, next)
<1> DEFINE s == task.status
           m == task.message
           st == task.state
           A == task.artifacts
           w == Exchange!WorkingTask
<1>1. task = Task(s, m, st, A) /\ IsFcn(A)
  BY DEF IsTask, IsFcn
<1>2. w.status = "working" /\ w.state = None /\ w.artifacts = Exchange!NoArtifacts
  BY WorkingIs, TaskFacts
<1>3. "working" \notin Exchange!Terminal
  BY DEF Exchange!Terminal
<1> HIDE DEF w
<1>4. State(w, st) = st
  BY <1>2 DEF State
<1>5. CASE e.case = "artifactUpdate" /\ e.id = Exchange!Answer
  <2>1. PICK parts : Exchange!ApplyArtifact(Task(s, m, st, A), e) = Task(s, m, st, Exchange!Over(One(e.id, parts), A))
    BY ArtifactIn
  <2>2. next = Exchange!ApplyArtifact(task, e)
    BY <1>5 DEF Exchange!Apply
  <2> DEFINE C == Exchange!Over(One(e.id, parts), A)
  <2>3. DOMAIN C = {Exchange!Answer} \cup DOMAIN A
    BY <1>5 DEF One, Exchange!Over
  <2> HIDE DEF C
  <2>4. next = Task(s, m, st, C)
    <3> HIDE DEF s, m, st, A
    <3> QED  BY <1>1, <2>1, <2>2 DEF C
  <2>5. next.status = s /\ next.state = st /\ next.artifacts = C
    BY <2>4, TaskFacts
  <2> QED  BY <2>3, <2>5 DEF Keeps, Open
<1>6. CASE e = Exchange!TaskEvent(w)
  <2> DEFINE C == Exchange!Over(w.artifacts, A)
  <2>1. next = Task(w.status, w.message, State(w, st), C)
    <3>1. Exchange!Apply(Task(s, m, st, A), Exchange!TaskEvent(w)) = Task(w.status, w.message, State(w, st), Exchange!Over(w.artifacts, A))
      BY TaskApplied
    <3> HIDE DEF s, m, st, A
    <3> QED  BY <1>1, <1>6, <3>1
  <2>2. DOMAIN C = DOMAIN A
    BY <1>2, NothingFacts DEF Exchange!Over
  <2> HIDE DEF C
  <2>3. next.status = w.status /\ next.state = State(w, st) /\ next.artifacts = C
    BY <2>1, TaskFacts
  <2> QED  BY <1>2, <1>3, <1>4, <2>2, <2>3 DEF Keeps, Open
<1>7. CASE e = Exchange!StatusUpdate(w)
  <2>1. next = Task(w.status, w.message, State(w, st), A)
    <3>1. Exchange!Apply(Task(s, m, st, A), Exchange!StatusUpdate(w)) = Task(w.status, w.message, State(w, st), A)
      BY StatusApplied
    <3> HIDE DEF s, m, st, A
    <3> QED  BY <1>1, <1>7, <3>1
  <2>3. next.status = w.status /\ next.state = State(w, st) /\ next.artifacts = A
    BY <2>1, TaskFacts
  <2> QED  BY <1>2, <1>3, <1>4, <2>3 DEF Keeps, Open
<1> QED  BY <1>5, <1>6, <1>7 DEF IsProgress, w

--------------------------------------------------------------------------------
(* What a turn publishes before its end.                                   *)
Goes(x, b, y, streams) == IsSeq(b) /\ (\A i \in DOMAIN b : IsProgress(b[i])) /\ Leads(x, b, y, streams)

LEMMA GoesJoin ==
  ASSUME NEW x, NEW b, NEW y, NEW c, NEW z, NEW streams, Goes(x, b, y, streams), Goes(y, c, z, streams)
  PROVE  Goes(x, b \o c, z, streams)
<1> DEFINE a == b \o c
<1>1. IsSeq(b) /\ IsSeq(c) /\ Leads(x, b, y, streams) /\ Leads(y, c, z, streams)
  BY DEF Goes
<1>2. (\A i \in DOMAIN b : IsProgress(b[i])) /\ (\A i \in DOMAIN c : IsProgress(c[i]))
  BY DEF Goes
<1>3. Leads(x, b \o c, z, streams)
  BY <1>1, LeadsJoin
<1>4. /\ IsSeq(b \o c) /\ Len(b \o c) = Len(b) + Len(c)
      /\ \A i \in 1 .. Len(b) : (b \o c)[i] = b[i]
      /\ \A i \in 1 .. Len(c) : (b \o c)[Len(b) + i] = c[i]
  BY <1>1, JoinFacts
<1>5. DOMAIN b = 1 .. Len(b) /\ DOMAIN c = 1 .. Len(c) /\ Len(b) \in Nat /\ Len(c) \in Nat
  BY <1>1, IsSeqFacts
<1>6. DOMAIN a = 1 .. Len(b) + Len(c)
  BY <1>4, IsSeqFacts
<1>7. ASSUME NEW i \in DOMAIN a  PROVE IsProgress(a[i])
  <2>1. CASE i \in 1 .. Len(b)
    BY <1>2, <1>4, <1>5, <2>1
  <2>2. CASE i \notin 1 .. Len(b)
    <3>1. i - Len(b) \in 1 .. Len(c) /\ i = Len(b) + (i - Len(b))
      BY <1>5, <1>6, <2>2
    <3>2. a[i] = c[i - Len(b)]
      BY <1>4, <3>1
    <3> QED  BY <1>2, <1>5, <3>1, <3>2
  <2> QED  BY <2>1, <2>2
<1> QED  BY <1>3, <1>4, <1>7 DEF Goes

LEMMA GoesNone == \A x, streams : Goes(x, <<>>, x, streams)
BY LeadsNone, NoTexts DEF Goes

LEMMA GoesOne ==
  ASSUME NEW x, NEW e, IsProgress(e), NEW y, NEW streams, Leads(x, <<e>>, y, streams)
  PROVE  Goes(x, <<e>>, y, streams)
<1>1. IsSeq(<<e>>)
  BY OneSeq
<1>2. \A i \in DOMAIN <<e>> : <<e>>[i] = e
  OBVIOUS
<1> QED  BY <1>1, <1>2 DEF Goes

LEMMA ProgressIs ==
  /\ IsProgress(Exchange!TaskEvent(Exchange!WorkingTask)) /\ IsProgress(Exchange!StatusUpdate(Exchange!WorkingTask))
  /\ \A parts, append : IsProgress(Exchange!ArtifactUpdate(Exchange!Answer, parts, append))
<1>1. \A parts, append : /\ Exchange!ArtifactUpdate(Exchange!Answer, parts, append).case = "artifactUpdate"
                         /\ Exchange!ArtifactUpdate(Exchange!Answer, parts, append).id = Exchange!Answer
  BY DEF Exchange!ArtifactUpdate
<1> QED  BY <1>1 DEF IsProgress

Start(started) == IF started THEN <<>> ELSE <<Exchange!TaskEvent(Exchange!WorkingTask)>>

LEMMA StartGoes ==
  ASSUME NEW prior, IsTask(prior), NEW streams \in BOOLEAN, NEW started \in BOOLEAN, NEW deltas, ~started => deltas = <<>>
  PROVE  Goes(Running(prior, started, streams, Made(deltas), deltas), Start(started), Going(prior, streams, Made(deltas), deltas), streams)
<1>1. CASE started
  <2>1. Running(prior, started, streams, Made(deltas), deltas) = Going(prior, streams, Made(deltas), deltas)
    BY <1>1 DEF Running
  <2>2. Start(started) = <<>>
    BY <1>1 DEF Start
  <2> QED  BY <2>1, <2>2, GoesNone
<1>2. CASE ~ started
  <2> DEFINE x == Fresh(prior, streams)
             y == Going(prior, streams, Made(<<>>), <<>>)
             e == Exchange!TaskEvent(Exchange!WorkingTask)
  <2>1. Running(prior, started, streams, Made(deltas), deltas) = x /\ deltas = <<>>
    BY <1>2 DEF Running
  <2>2. Start(started) = <<e>>
    BY <1>2 DEF Start
  <2>3. Leads(x, <<e>>, y, streams)
    <3>1. Leads(Fresh(prior, streams), <<Exchange!TaskEvent(Exchange!WorkingTask)>>, Going(prior, streams, Made(<<>>), <<>>), streams)
      BY StartsLeads
    <3> QED  BY <3>1
  <2>4. IsProgress(e)
    BY ProgressIs
  <2> HIDE DEF x, y, e
  <2>5. Goes(x, <<e>>, y, streams)
    BY <2>3, <2>4, GoesOne
  <2>6. Going(prior, streams, Made(deltas), deltas) = y
    BY <2>1 DEF y
  <2> QED  BY <2>1, <2>2, <2>5, <2>6
<1> QED  BY <1>1, <1>2

Opening(deltas) == IF deltas = <<>> THEN <<Exchange!ArtifactUpdate(Exchange!Answer, <<>>, FALSE)>> ELSE <<>>

LEMMA OpenGoes ==
  ASSUME NEW prior, NEW streams \in BOOLEAN, NEW deltas
  PROVE  Goes(Going(prior, streams, Made(deltas), deltas), Opening(deltas), Going(prior, streams, One(Exchange!Answer, Texts(deltas)), deltas), streams)
<1>1. CASE deltas # <<>>
  <2>1. Made(deltas) = One(Exchange!Answer, Texts(deltas))
    BY <1>1, MadeIs
  <2>2. Opening(deltas) = <<>>
    BY <1>1 DEF Opening
  <2> QED  BY <2>1, <2>2, GoesNone
<1>2. CASE deltas = <<>>
  <2> DEFINE x == Going(prior, streams, Made(<<>>), <<>>)
             y == Going(prior, streams, One(Exchange!Answer, <<>>), <<>>)
             e == Exchange!ArtifactUpdate(Exchange!Answer, <<>>, FALSE)
  <2>1. Leads(x, <<e>>, y, streams)
    BY OpensLeads
  <2>2. IsProgress(e)
    BY ProgressIs
  <2>3. Opening(deltas) = <<e>>
    BY <1>2 DEF Opening
  <2>4. /\ Going(prior, streams, Made(deltas), deltas) = x
        /\ Going(prior, streams, One(Exchange!Answer, Texts(deltas)), deltas) = y
    BY <1>2, NoTexts
  <2> HIDE DEF x, y, e
  <2>5. Goes(x, <<e>>, y, streams)
    BY <2>1, <2>2, GoesOne
  <2> QED  BY <2>3, <2>4, <2>5
<1> QED  BY <1>1, <1>2

LEMMA SayGoes ==
  ASSUME NEW prior, NEW streams \in BOOLEAN, NEW deltas, IsSeq(deltas), NEW t
  PROVE  Goes(Going(prior, streams, One(Exchange!Answer, Texts(deltas)), deltas),
              <<Exchange!ArtifactUpdate(Exchange!Answer, <<Exchange!Text(t)>>, TRUE)>>,
              Going(prior, streams, Made(Append(deltas, t)), Append(deltas, t)), streams)
<1> DEFINE new == Append(deltas, t)
           parts == <<Exchange!Text(t)>>
           x == Going(prior, streams, One(Exchange!Answer, Texts(deltas)), deltas)
           y == Going(prior, streams, One(Exchange!Answer, Texts(new)), new)
           e == Exchange!ArtifactUpdate(Exchange!Answer, parts, TRUE)
<1>1. Leads(x, <<e>>, y, streams)
  <2>1. \E z : parts = <<Exchange!Text(z)>> /\ new = Append(deltas, z)
    OBVIOUS
  <2> HIDE DEF parts, new
  <2>2. Leads(Going(prior, streams, One(Exchange!Answer, Texts(deltas)), deltas),
               <<Exchange!ArtifactUpdate(Exchange!Answer, parts, TRUE)>>,
               Going(prior, streams, One(Exchange!Answer, Texts(new)), new), streams)
    BY <2>1, GrowsLeads
  <2> QED  BY <2>2
<1>2. IsProgress(e)
  BY ProgressIs
<1>3. new # <<>>
  BY Appended
<1>4. Going(prior, streams, Made(new), new) = y
  <2> HIDE DEF new
  <2> QED  BY <1>3, MadeIs
<1> HIDE DEF x, y, e, new
<1>5. Goes(x, <<e>>, y, streams)
  BY <1>1, <1>2, GoesOne
<1> QED  BY <1>4, <1>5 DEF x, e, new

LEMMA StillGoes ==
  ASSUME NEW prior, NEW streams \in BOOLEAN
  PROVE  Goes(Going(prior, streams, Made(<<>>), <<>>), <<Exchange!StatusUpdate(Exchange!WorkingTask)>>,
              Going(prior, streams, Made(<<>>), <<>>), streams)
<1> DEFINE x == Going(prior, streams, Made(<<>>), <<>>)
           e == Exchange!StatusUpdate(Exchange!WorkingTask)
<1>1. Leads(x, <<e>>, x, streams)
  BY StillLeads
<1>2. IsProgress(e)
  BY ProgressIs
<1> HIDE DEF x, e
<1>3. Goes(x, <<e>>, x, streams)
  BY <1>1, <1>2, GoesOne
<1> QED  BY <1>3 DEF x, e

--------------------------------------------------------------------------------
(* What a handler gives.                                                   *)
LEMMA SurfaceIs ==
  ASSUME NEW n, NEW name, NEW catalog, NEW id, NEW s, s = Surface(n, name, catalog, id)
  PROVE  s.turn = n /\ s.name = name /\ s.catalog = catalog /\ s.id = id
BY DEF Surface

LEMMA GivenItems ==
  ASSUME NEW items, Len(items) \in Nat, items = [i \in 1 .. Len(items) |-> items[i]],
         NEW s, s = Exchange!Given(items)
  PROVE  /\ IsItems(s)
         /\ (\A i, j \in 1 .. Len(items) : items[i].id # None =>
                   items[i].id \notin {"surf"} \X Nat /\ (items[i].id = items[j].id => i = j)) => IdsApart(s)
<1> DEFINE n == Len(items)
<1>1. n \in Nat /\ DOMAIN items = 1 .. n
  OBVIOUS
<1> HIDE DEF n
<1>2. s = [i \in 1 .. n |-> Surface(said.n, items[i].name, items[i].catalog, items[i].id)]
  BY <1>1, Zenon DEF Exchange!Given, Surface
<1>3. s = [i \in 1 .. n |-> s[i]] /\ \A i \in 1 .. n : s[i] = Surface(said.n, items[i].name, items[i].catalog, items[i].id)
  BY <1>2
<1>4. IsSeq(s) /\ DOMAIN s = 1 .. n
  BY <1>1, <1>3, SeqMade
<1>5. \A i \in 1 .. n : s[i].turn = said.n /\ s[i].name = items[i].name /\ s[i].catalog = items[i].catalog /\ s[i].id = items[i].id
  <2>1. SUFFICES ASSUME NEW i \in 1 .. n
                 PROVE  s[i].turn = said.n /\ s[i].name = items[i].name /\ s[i].catalog = items[i].catalog /\ s[i].id = items[i].id
    OBVIOUS
  <2> DEFINE name == items[i].name
             catalog == items[i].catalog
             id == items[i].id
             one == s[i]
  <2>2. one = Surface(said.n, name, catalog, id)
    BY <1>3
  <2> HIDE DEF name, catalog, id, one
  <2>3. one.turn = said.n /\ one.name = name /\ one.catalog = catalog /\ one.id = id
    BY <2>2, SurfaceIs
  <2> QED  BY <2>3 DEF name, catalog, id, one
<1>6. IsItems(s)
  BY <1>3, <1>4, <1>5 DEF IsItems
<1>7. ASSUME \A i, j \in 1 .. n : items[i].id # None =>
                   items[i].id \notin {"surf"} \X Nat /\ (items[i].id = items[j].id => i = j)
      PROVE  IdsApart(s)
  BY <1>4, <1>5, <1>7 DEF IdsApart, MadeIds
<1> QED  BY <1>6, <1>7 DEF n

LEMMA OutcomeGiven ==
  ASSUME NEW r \in Outcomes, NEW g, g = [r EXCEPT !.a2ui = Exchange!Given(@), !.followup = Exchange!Given(@)]
  PROVE  IsOutcome(g)
<1> DEFINE Fine(items) == \A i, j \in 1 .. Len(items) : items[i].id # None =>
                            items[i].id \notin {"surf"} \X Nat /\ (items[i].id = items[j].id => i = j)
           x == Exchange!Given(r.a2ui)
           y == Exchange!Given(r.followup)
<1>1. /\ r \in [status : {"completed", "failed", "input-required"}, message : BOOLEAN, state : BOOLEAN,
                a2ui : {r.a2ui}, followup : {r.followup}]
      /\ \A items \in {r.a2ui, r.followup} :
            /\ Len(items) \in Nat /\ items = [i \in 1 .. Len(items) |-> items[i]]
            /\ r.status = "input-required" => Fine(items)
  BY ExchangeAssumption
<1>2. /\ IsItems(x) /\ (Fine(r.a2ui) => IdsApart(x))
      /\ IsItems(y) /\ (Fine(r.followup) => IdsApart(y))
  <2>1. ASSUME NEW items \in {r.a2ui, r.followup}
        PROVE  IsItems(Exchange!Given(items)) /\ (Fine(items) => IdsApart(Exchange!Given(items)))
    <3> DEFINE s == Exchange!Given(items)
    <3>1. Len(items) \in Nat /\ items = [i \in 1 .. Len(items) |-> items[i]] /\ s = Exchange!Given(items)
      BY <1>1
    <3> HIDE DEF s
    <3> QED  BY <3>1, GivenItems
  <2> HIDE DEF Fine
  <2> QED  BY <2>1
<1>3. g = [r EXCEPT !.a2ui = x, !.followup = y]
  BY Zenon
<1> HIDE DEF Fine, x, y
<1>4. g.status = r.status /\ g.message = r.message /\ g.state = r.state /\ g.a2ui = x /\ g.followup = y
  BY <1>1, <1>3
<1>5. /\ r.status \in {"completed", "failed", "input-required"} /\ r.message \in BOOLEAN /\ r.state \in BOOLEAN
      /\ r.status = "input-required" => Fine(r.a2ui) /\ Fine(r.followup)
  BY <1>1
<1> QED  BY <1>2, <1>4, <1>5 DEF IsOutcome

--------------------------------------------------------------------------------
(* The invariant.  The types.                                              *)
SaidFields == {"n", "stage", "request", "streams", "input", "prior", "started", "deltas", "result"}

Shape ==
  /\ legacyCompat \in BOOLEAN
  /\ said = [a \in SaidFields |-> said[a]]
  /\ said.n \in 0 .. MaxAsked /\ said.stage \in {"idle", "running", "concluded"}
  /\ said.streams \in BOOLEAN /\ said.started \in BOOLEAN /\ IsSeq(said.deltas)
  /\ IsTask(stored) /\ IsTask(said.prior) /\ IsSeq(bus)
  /\ kept = [a \in {"state", "cut"} |-> kept[a]] /\ kept.cut \in BOOLEAN

Now == Running(said.prior, said.started, said.streams, Made(said.deltas), said.deltas)
End == Done(said.prior, said.streams, Made(said.deltas), said.deltas, Full)

(* What is on its way leads to what the turn gave.                         *)
OnTheWay ==
  /\ said.stage = "idle" => bus = <<>>
  /\ said.stage # "idle" => said.n # 0 /\ answer = None /\ said.request \in Requests /\ (~ said.started => said.deltas = <<>>)
  /\ said.stage = "running" => Goes(Known, bus, Now, said.streams)
  /\ said.stage = "concluded" => IsOutcome(said.result) /\ Leads(Known, bus, End, said.streams)

(* What the handler was given.                                             *)
GivenInput ==
  said.stage # "idle" =>
    /\ said.input = Exchange!Input(said.request, said.prior)
    /\ ~ kept.cut => Exchange!TaskState(said.prior) = kept.state /\ Open(said.prior)

(* What the store keeps between turns.                                     *)
KeptState ==
  /\ said.stage = "running" => stored.status \notin Exchange!Terminal
  /\ ~ kept.cut /\ said.stage # "concluded" =>
       Exchange!TaskState(stored) = kept.state /\ (stored.status \in Exchange!Terminal \/ Open(stored))

ExchangeInv == Shape /\ OnTheWay /\ GivenInput /\ KeptState /\ Exchange!AnswerExact

--------------------------------------------------------------------------------
LEMMA NothingIsTask == IsTask(Exchange!NoTask)
BY NothingFacts, TaskFacts DEF IsTask, IsFcn

LEMMA IdleIs ==
  ASSUME NEW n, NEW t, t = Exchange!Idle(n)
  PROVE  /\ t = [a \in SaidFields |-> t[a]] /\ t.n = n /\ t.stage = "idle" /\ t.request = None /\ t.streams = FALSE
         /\ t.input = None /\ t.prior = Exchange!NoTask /\ t.started = FALSE /\ t.deltas = <<>> /\ t.result = None
BY DEF Exchange!Idle, SaidFields

IsIdle(t, n) ==
  /\ t = [a \in SaidFields |-> t[a]] /\ t.n = n /\ t.stage = "idle" /\ t.streams = FALSE
  /\ t.prior = Exchange!NoTask /\ t.started = FALSE /\ t.deltas = <<>>

LEMMA IdleFacts == \A n : IsIdle(Exchange!Idle(n), n)
BY DEF Exchange!Idle, SaidFields, IsIdle

LEMMA ExchangeStarts == Exchange!ExchangeInit => ExchangeInv
<1> SUFFICES ASSUME Exchange!ExchangeInit  PROVE ExchangeInv
  OBVIOUS
<1>1. /\ legacyCompat \in BOOLEAN /\ said = Exchange!Idle(0) /\ bus = <<>> /\ stored = Exchange!NoTask
      /\ answer = None /\ kept = [state |-> None, cut |-> FALSE]
  BY DEF Exchange!ExchangeInit
<1>2. /\ said = [a \in SaidFields |-> said[a]] /\ said.n = 0 /\ said.stage = "idle" /\ said.streams = FALSE
      /\ said.prior = Exchange!NoTask /\ said.started = FALSE /\ said.deltas = <<>>
  BY <1>1, IdleIs
<1>3. MaxAsked \in Nat /\ None \notin Nat
  BY ExchangeAssumption
<1>4. kept = [a \in {"state", "cut"} |-> kept[a]] /\ kept.cut = FALSE /\ kept.state = None
  BY <1>1
<1>5. Shape
  <2>said. said.n \in 0 .. MaxAsked
    BY <1>2, <1>3
  <2>tasks. IsTask(stored) /\ IsTask(said.prior)
    BY <1>1, <1>2, NothingIsTask
  <2>seqs. IsSeq(bus) /\ IsSeq(said.deltas)
    BY <1>1, <1>2, NoTexts
  <2>stages. said.stage \in {"idle", "running", "concluded"} /\ said.streams \in BOOLEAN /\ said.started \in BOOLEAN
    BY <1>2
  <2>kept. kept = [a \in {"state", "cut"} |-> kept[a]] /\ kept.cut \in BOOLEAN
    BY <1>4
  <2> QED  BY <1>1, <1>2, <2>said, <2>tasks, <2>seqs, <2>stages, <2>kept DEF Shape
<1>6. OnTheWay /\ GivenInput
  BY <1>1, <1>2 DEF OnTheWay, GivenInput
<1>7. KeptState
  <2>1. stored.state = None /\ DOMAIN stored.artifacts = {}
    BY <1>1, NothingFacts
  <2>2. Exchange!TaskState(stored) = None
    BY <2>1 DEF Exchange!TaskState
  <2>3. Open(stored)
    BY <2>1 DEF Open
  <2> QED  BY <1>2, <1>4, <2>2, <2>3 DEF KeptState
<1>8. Exchange!AnswerExact
  BY <1>1 DEF Exchange!AnswerExact
<1> QED  BY <1>5, <1>6, <1>7, <1>8 DEF ExchangeInv

--------------------------------------------------------------------------------
Begun(request, streams) ==
  [Exchange!Idle(said.n + 1) EXCEPT !.stage = "running", !.request = request, !.streams = streams,
                                    !.input = Exchange!Input(request, stored), !.prior = stored]

IsBegun(u, request, streams) ==
  /\ u = [a \in SaidFields |-> u[a]] /\ u.n = said.n + 1 /\ u.stage = "running" /\ u.request = request
  /\ u.streams = streams /\ u.input = Exchange!Input(request, stored) /\ u.prior = stored /\ u.started = FALSE
  /\ u.deltas = <<>>

LEMMA BeginFacts ==
  ASSUME NEW request, NEW streams, NEW u, u = Begun(request, streams)
  PROVE  IsBegun(u, request, streams)
<1> DEFINE input == Exchange!Input(request, stored)
           t == Exchange!Idle(said.n + 1)
<1>1. t = [a \in SaidFields |-> t[a]] /\ t.n = said.n + 1 /\ t.started = FALSE /\ t.deltas = <<>> /\ t.result = None
  <2> DEFINE n == said.n + 1
  <2>1. t = Exchange!Idle(n)
    OBVIOUS
  <2> HIDE DEF n, t
  <2>2. t = [a \in SaidFields |-> t[a]] /\ t.n = n /\ t.started = FALSE /\ t.deltas = <<>> /\ t.result = None
    BY <2>1, IdleIs
  <2> QED  BY <2>2 DEF n
<1>2. u = [t EXCEPT !.stage = "running", !.request = request, !.streams = streams, !.input = input, !.prior = stored]
  BY Zenon DEF Begun
<1> HIDE DEF input, t
<1>3. u = [a \in SaidFields |-> u[a]] /\ u.n = said.n + 1 /\ u.stage = "running" /\ u.request = request
         /\ u.streams = streams /\ u.input = input /\ u.prior = stored /\ u.started = FALSE /\ u.deltas = <<>>
  BY <1>1, <1>2 DEF SaidFields
<1> QED  BY <1>3 DEF input, IsBegun

LEMMA BeginKeeps ==
  ASSUME ExchangeInv, NEW request \in Requests, NEW streams \in BOOLEAN, Exchange!Begin(request, streams)
  PROVE  ExchangeInv'
<1>1. /\ said.stage = "idle" /\ said.n < MaxAsked /\ stored.status \notin Exchange!Terminal
      /\ said' = Begun(request, streams)
      /\ relay' = [task |-> Exchange!NoTask, deltas |-> <<>>] /\ answer' = None
      /\ legacyCompat' = legacyCompat /\ bus' = bus /\ stored' = stored /\ kept' = kept
  BY Zenon DEF Exchange!Begin, Begun
<1>2. /\ said' = [a \in SaidFields |-> said'[a]] /\ said'.n = said.n + 1 /\ said'.stage = "running" /\ said'.request = request
      /\ said'.streams = streams /\ said'.input = Exchange!Input(request, stored) /\ said'.prior = stored /\ said'.started = FALSE
      /\ said'.deltas = <<>>
  <2>1. IsBegun(said', request, streams)
    BY <1>1, BeginFacts
  <2> QED  BY <2>1 DEF IsBegun
<1>3. Shape /\ OnTheWay /\ KeptState
  BY DEF ExchangeInv
<1>4. bus = <<>>
  BY <1>1, <1>3 DEF OnTheWay
<1>5. said.n \in 0 .. MaxAsked /\ MaxAsked \in Nat
  BY <1>3, ExchangeAssumption DEF Shape
<1>6. said'.n \in 0 .. MaxAsked /\ said'.n # 0
  BY <1>1, <1>2, <1>5
<1>7. Shape'
  <2>1. /\ legacyCompat' \in BOOLEAN /\ said'.stage \in {"idle", "running", "concluded"}
        /\ said'.streams \in BOOLEAN /\ said'.started \in BOOLEAN /\ IsSeq(said'.deltas)
        /\ IsTask(stored') /\ IsTask(said'.prior) /\ IsSeq(bus')
        /\ kept' = [a \in {"state", "cut"} |-> kept'[a]] /\ kept'.cut \in BOOLEAN
    BY <1>1, <1>2, <1>3, NoTexts DEF Shape
  <2>2. said' = [a \in SaidFields |-> said'[a]] /\ said'.n \in 0 .. MaxAsked
    BY <1>2, <1>6
  <2> QED  BY <2>1, <2>2 DEF Shape
<1>8. Known' = Fresh(stored, streams) /\ Now' = Fresh(stored, streams)
  <2>1. Known' = [stored |-> stored, relay |-> [task |-> Exchange!NoTask, deltas |-> <<>>]]
    BY <1>1 DEF Known
  <2>2. Fresh(stored, streams) = [stored |-> stored, relay |-> [task |-> Exchange!NoTask, deltas |-> <<>>]]
    BY DEF Fresh, Both
  <2>3. Now' = Running(said'.prior, said'.started, said'.streams, Made(said'.deltas), said'.deltas)
    BY DEF Now
  <2>4. Now' = Fresh(stored, streams)
    BY <1>2, <2>3 DEF Running
  <2> QED  BY <2>1, <2>2, <2>4
<1>9. Goes(Known', bus', Now', said'.streams)
  BY <1>1, <1>4, <1>8, GoesNone
<1>10. OnTheWay'
  BY <1>1, <1>2, <1>4, <1>6, <1>9 DEF OnTheWay
<1>11. GivenInput'
  <2>1. ~ kept.cut => Exchange!TaskState(stored) = kept.state /\ Open(stored)
    BY <1>1, <1>3 DEF KeptState
  <2> QED  BY <1>1, <1>2, <2>1 DEF GivenInput
<1>12. KeptState'
  BY <1>1, <1>2, <1>3 DEF KeptState
<1>13. Exchange!AnswerExact'
  BY <1>1 DEF Exchange!AnswerExact
<1> QED  BY <1>7, <1>10, <1>11, <1>12, <1>13 DEF ExchangeInv

--------------------------------------------------------------------------------
LEMMA JoinTwo ==
  ASSUME NEW s, NEW t, NEW u, IsSeq(s), IsSeq(t), IsSeq(u)
  PROVE  (s \o t) \o u = s \o (t \o u)
<1> DEFINE S == {s[i] : i \in DOMAIN s}
           T == {t[i] : i \in DOMAIN t}
           U == {u[i] : i \in DOMAIN u}
           V == (S \cup T) \cup U
<1>1. s \in Seq(S) /\ t \in Seq(T) /\ u \in Seq(U)
  BY DEF IsSeq
<1> HIDE DEF S, T, U
<1>2. s \in Seq(V) /\ t \in Seq(V) /\ u \in Seq(V)
  BY <1>1
<1> HIDE DEF V
<1> QED  BY <1>2, ConcatAssociative

(* A turn that says something goes on as it was.                           *)
IsSaying(u, deltas) ==
  /\ u = [a \in SaidFields |-> u[a]] /\ u.n = said.n /\ u.stage = said.stage /\ u.request = said.request
  /\ u.streams = said.streams /\ u.input = said.input /\ u.prior = said.prior /\ u.started = TRUE
  /\ u.deltas = deltas

LEMMA SayingIs ==
  ASSUME said = [a \in SaidFields |-> said[a]], NEW deltas
  PROVE  /\ IsSaying([said EXCEPT !.started = TRUE, !.deltas = deltas], deltas)
         /\ deltas = said.deltas => IsSaying([said EXCEPT !.started = TRUE], deltas)
<1>1. IsSaying([said EXCEPT !.started = TRUE, !.deltas = deltas], deltas)
  BY DEF SaidFields, IsSaying
<1>2. ASSUME deltas = said.deltas  PROVE IsSaying([said EXCEPT !.started = TRUE], deltas)
  BY <1>2 DEF SaidFields, IsSaying
<1> QED  BY <1>1, <1>2

LEMMA GoesOn ==
  ASSUME ExchangeInv, said.stage = "running", NEW deltas, IsSeq(deltas), IsSaying(said', deltas),
         NEW b, bus' = bus \o b,
         Goes(Now, b, Going(said.prior, said.streams, Made(deltas), deltas), said.streams),
         legacyCompat' = legacyCompat, stored' = stored, relay' = relay, answer' = answer, kept' = kept
  PROVE  ExchangeInv'
<1> DEFINE y == Going(said.prior, said.streams, Made(deltas), deltas)
           x == Now
<1>1. Shape /\ OnTheWay /\ GivenInput /\ KeptState
  BY DEF ExchangeInv
<1>2. /\ said' = [a \in SaidFields |-> said'[a]] /\ said'.n = said.n /\ said'.stage = "running" /\ said'.request = said.request
      /\ said'.streams = said.streams /\ said'.input = said.input /\ said'.prior = said.prior /\ said'.started = TRUE
      /\ said'.deltas = deltas
  BY DEF IsSaying
<1>3. Known' = Known
  BY DEF Known
<1>4. Now' = y
  BY <1>2 DEF Now, Running
<1>5. Goes(Known, bus \o b, y, said.streams)
  <2>1. Goes(Known, bus, x, said.streams)
    BY <1>1 DEF OnTheWay
  <2>2. Goes(x, b, y, said.streams)
    OBVIOUS
  <2> HIDE DEF x, y
  <2> QED  BY <2>1, <2>2, GoesJoin
<1> HIDE DEF x, y
<1>6. Shape'
  <2>1. /\ said'.n \in 0 .. MaxAsked /\ said'.stage \in {"idle", "running", "concluded"}
        /\ said'.streams \in BOOLEAN /\ said'.started \in BOOLEAN /\ IsSeq(said'.deltas)
    BY <1>1, <1>2 DEF Shape
  <2>2. IsTask(stored') /\ IsTask(said'.prior) /\ legacyCompat' \in BOOLEAN
    BY <1>1, <1>2 DEF Shape
  <2>3. kept' = [a \in {"state", "cut"} |-> kept'[a]] /\ kept'.cut \in BOOLEAN
    BY <1>1 DEF Shape
  <2>4. IsSeq(bus')
    BY <1>5 DEF Goes
  <2> QED  BY <1>2, <2>1, <2>2, <2>3, <2>4 DEF Shape
<1>7. OnTheWay'
  <2>1. said'.n # 0 /\ answer' = None /\ said'.request \in Requests
    BY <1>1, <1>2 DEF OnTheWay
  <2>2. Goes(Known', bus', Now', said'.streams)
    BY <1>2, <1>3, <1>4, <1>5
  <2> QED  BY <1>2, <2>1, <2>2 DEF OnTheWay
<1>8. GivenInput'
  BY <1>1, <1>2 DEF GivenInput
<1>9. KeptState'
  BY <1>1, <1>2 DEF KeptState
<1>10. Exchange!AnswerExact'
  BY <1>1 DEF Exchange!AnswerExact, OnTheWay
<1> QED  BY <1>6, <1>7, <1>8, <1>9, <1>10 DEF ExchangeInv

LEMMA EmitKeeps ==
  ASSUME ExchangeInv, Exchange!Emit
  PROVE  ExchangeInv'
<1> DEFINE prior == said.prior
           streams == said.streams
           started == said.started
           deltas == said.deltas
           delta == Exchange!Said(said.n, "delta", Len(said.deltas) + 1)
           new == Append(deltas, delta)
           x == Now
           g == Going(prior, streams, Made(deltas), deltas)
           s == Start(started)
<1>1. said.stage = "running" /\ legacyCompat' = legacyCompat /\ stored' = stored /\ relay' = relay /\ answer' = answer /\ kept' = kept
  BY DEF Exchange!Emit
<1>2. Shape /\ OnTheWay
  BY DEF ExchangeInv
<1>3. said = [a \in SaidFields |-> said[a]] /\ IsTask(prior) /\ streams \in BOOLEAN /\ started \in BOOLEAN /\ IsSeq(deltas) /\ IsSeq(bus)
  BY <1>2 DEF Shape
<1>4. ~ started => deltas = <<>>
  BY <1>1, <1>2 DEF OnTheWay
<1>5. Goes(x, s, g, streams)
  <2>1. x = Running(prior, started, streams, Made(deltas), deltas)
    BY DEF Now
  <2> HIDE DEF prior, started, streams, deltas, x
  <2>2. Goes(Running(prior, started, streams, Made(deltas), deltas), Start(started), Going(prior, streams, Made(deltas), deltas), streams)
    BY <1>3, <1>4, StartGoes
  <2> QED  BY <2>1, <2>2
<1>6. Exchange!StartWorking = s
  BY DEF Exchange!StartWorking, Start
<1>7. CASE /\ said' = [said EXCEPT !.started = TRUE, !.deltas = Append(@, delta)]
           /\ bus' = bus \o Exchange!StartWorking
                         \o (IF said.deltas = <<>> THEN <<Exchange!ArtifactUpdate(Exchange!Answer, <<>>, FALSE)>> ELSE <<>>)
                         \o <<Exchange!ArtifactUpdate(Exchange!Answer, <<Exchange!Text(delta)>>, TRUE)>>
  <2> DEFINE o == Opening(deltas)
             e == <<Exchange!ArtifactUpdate(Exchange!Answer, <<Exchange!Text(delta)>>, TRUE)>>
             h == Going(prior, streams, One(Exchange!Answer, Texts(deltas)), deltas)
             y == Going(prior, streams, Made(new), new)
  <2>1. Goes(g, o, h, streams)
    <3> HIDE DEF prior, streams, deltas
    <3>1. Goes(Going(prior, streams, Made(deltas), deltas), Opening(deltas), Going(prior, streams, One(Exchange!Answer, Texts(deltas)), deltas), streams)
      BY <1>3, OpenGoes
    <3> QED  BY <3>1
  <2>2. Goes(h, e, y, streams)
    <3> HIDE DEF prior, streams, deltas, delta
    <3>1. Goes(Going(prior, streams, One(Exchange!Answer, Texts(deltas)), deltas),
              <<Exchange!ArtifactUpdate(Exchange!Answer, <<Exchange!Text(delta)>>, TRUE)>>,
              Going(prior, streams, Made(Append(deltas, delta)), Append(deltas, delta)), streams)
      BY <1>3, SayGoes
    <3> QED  BY <3>1
  <2>3. bus' = ((bus \o s) \o o) \o e
    <3>1. o = IF said.deltas = <<>> THEN <<Exchange!ArtifactUpdate(Exchange!Answer, <<>>, FALSE)>> ELSE <<>>
      BY DEF Opening
    <3> HIDE DEF o, s, e
    <3>2. bus' = bus \o s \o o \o <<Exchange!ArtifactUpdate(Exchange!Answer, <<Exchange!Text(delta)>>, TRUE)>>
      BY <1>6, <1>7, <3>1
    <3> QED  BY <3>2 DEF e
  <2>4. IsSaying(said', new)
    <3>1. said' = [said EXCEPT !.started = TRUE, !.deltas = new]
      BY <1>7
    <3> HIDE DEF new
    <3>2. IsSaying([said EXCEPT !.started = TRUE, !.deltas = new], new)
      BY <1>3, SayingIs
    <3> QED  BY <3>1, <3>2
  <2>5. IsSeq(new)
    <3> HIDE DEF delta, deltas
    <3> QED  BY <1>3, Appended
  <2> HIDE DEF x, g, h, y, s, o, e
  <2>6. Goes(x, (s \o o) \o e, y, streams)
    <3>1. Goes(x, s \o o, h, streams)
      BY <1>5, <2>1, GoesJoin
    <3> QED  BY <2>2, <3>1, GoesJoin
  <2>7. bus' = bus \o ((s \o o) \o e)
    <3>1. IsSeq(s) /\ IsSeq(o) /\ IsSeq(e)
      BY <1>5, <2>1, <2>2 DEF Goes
    <3>2. IsSeq(bus)
      BY <1>3
    <3> DEFINE w == s \o o
    <3> DEFINE c == bus
    <3>0. IsSeq(c)
      BY <3>2
    <3> HIDE DEF c
    <3>5. IsSeq(w)
      BY <3>1, JoinFacts
    <3>6. (c \o s) \o o = c \o w
      BY <3>0, <3>1, JoinTwo
    <3>3. (bus \o s) \o o = bus \o w /\ IsSeq(w)
      BY <3>5, <3>6 DEF c
    <3> HIDE DEF w
    <3>4. (bus \o w) \o e = bus \o (w \o e)
      BY <3>1, <3>2, <3>3, JoinTwo
    <3> QED  BY <2>3, <3>3, <3>4 DEF w
  <2> DEFINE b == (s \o o) \o e
  <2> HIDE DEF b, new
  <2>8. bus' = bus \o b /\ Goes(Now, b, Going(said.prior, said.streams, Made(new), new), said.streams)
    BY <2>6, <2>7 DEF b, x, y
  <2> QED  BY <1>1, <2>4, <2>5, <2>8, GoesOn
<1>8. CASE /\ ~ said.started
           /\ said' = [said EXCEPT !.started = TRUE]
           /\ bus' = bus \o Exchange!StartWorking \o <<Exchange!StatusUpdate(Exchange!WorkingTask)>>
  <2> DEFINE e == <<Exchange!StatusUpdate(Exchange!WorkingTask)>>
  <2>1. Goes(g, e, g, streams)
    <3>1. deltas = <<>>
      BY <1>4, <1>8
    <3> HIDE DEF prior, streams, deltas
    <3>2. Goes(Going(prior, streams, Made(<<>>), <<>>), <<Exchange!StatusUpdate(Exchange!WorkingTask)>>,
               Going(prior, streams, Made(<<>>), <<>>), streams)
      BY <1>3, StillGoes
    <3> QED  BY <3>1, <3>2
  <2>2. IsSaying(said', deltas)
    <3> HIDE DEF deltas
    <3>1. deltas = said.deltas => IsSaying([said EXCEPT !.started = TRUE], deltas)
      BY <1>3, SayingIs
    <3> QED  BY <1>8, <3>1 DEF deltas
  <2>3. bus' = (bus \o s) \o e
    <3> HIDE DEF s
    <3> QED  BY <1>6, <1>8
  <2> HIDE DEF x, g, s, e
  <2>4. Goes(x, s \o e, g, streams)
    BY <1>5, <2>1, GoesJoin
  <2>5. bus' = bus \o (s \o e)
    <3>1. IsSeq(s) /\ IsSeq(e)
      BY <1>5, <2>1 DEF Goes
    <3> QED  BY <1>3, <2>3, <3>1, JoinTwo
  <2> DEFINE b == s \o e
  <2> HIDE DEF b
  <2>6. bus' = bus \o b /\ Goes(Now, b, Going(said.prior, said.streams, Made(deltas), deltas), said.streams)
    BY <2>4, <2>5 DEF b, x, g
  <2> HIDE DEF deltas
  <2> QED  BY <1>1, <1>3, <2>2, <2>6, GoesOn
<1> QED  BY <1>7, <1>8 DEF Exchange!Emit

--------------------------------------------------------------------------------
(* A turn that ends.                                                       *)
IsEnding(u, r) ==
  /\ u = [a \in SaidFields |-> u[a]] /\ u.n = said.n /\ u.stage = "concluded" /\ u.request = said.request
  /\ u.streams = said.streams /\ u.input = said.input /\ u.prior = said.prior /\ u.started = said.started
  /\ u.deltas = said.deltas /\ u.result = r

LEMMA EndingIs ==
  ASSUME said = [a \in SaidFields |-> said[a]], NEW r
  PROVE  IsEnding([said EXCEPT !.stage = "concluded", !.result = r], r)
BY DEF SaidFields, IsEnding

LEMMA ConcludeKeeps ==
  ASSUME ExchangeInv, NEW r, IsOutcome(r), Exchange!Conclude(r)
  PROVE  ExchangeInv'
<1> DEFINE prior == said.prior
           streams == said.streams
           started == said.started
           deltas == said.deltas
           n == said.n
           agreed == said.input.catalogs
           streamed == deltas # <<>>
           task == Exchange!ToTask(n, r, agreed, legacyCompat)
           b == Exchange!FinalTaskEvents(task, prior, started, streamed)
           full == Exchange!Cleared(task, prior, streamed)
           first == IF streamed THEN <<Exchange!ArtifactUpdate(Exchange!Answer, <<>>, TRUE)>> ELSE <<>>
           x == Running(prior, started, streams, Made(deltas), deltas)
           z == Done(prior, streams, Made(deltas), deltas, full)
<1>1. /\ said.stage = "running" /\ legacyCompat' = legacyCompat /\ stored' = stored /\ relay' = relay
      /\ answer' = answer /\ kept' = kept /\ said' = [said EXCEPT !.stage = "concluded", !.result = r]
  BY DEF Exchange!Conclude
<1>2. bus' = (bus \o first) \o b
  BY Zenon DEF Exchange!Conclude
<1>3. Shape /\ OnTheWay /\ GivenInput /\ KeptState
  BY DEF ExchangeInv
<1>4. said = [a \in SaidFields |-> said[a]] /\ IsTask(prior) /\ streams \in BOOLEAN /\ started \in BOOLEAN /\ IsSeq(deltas) /\ IsSeq(bus)
  BY <1>3 DEF Shape
<1>5. said.n \in 1 .. MaxAsked /\ (~ started => deltas = <<>>) /\ said.request \in Requests /\ answer = None
  <2>1. said.n \in 0 .. MaxAsked /\ MaxAsked \in Nat
    BY <1>3, ExchangeAssumption DEF Shape
  <2>2. said.n # 0 /\ (~ started => deltas = <<>>) /\ said.request \in Requests /\ answer = None
    BY <1>1, <1>3 DEF OnTheWay
  <2> QED  BY <2>1, <2>2
<1>6. agreed = Exchange!NegotiateCatalogs(said.request.catalogs) /\ IsSeq(said.request.catalogs)
  <2> DEFINE request == said.request
             input == said.input
  <2>1. IsRequest(request)
    BY <1>5, RequestsAre
  <2>2. input = Exchange!Input(request, prior)
    BY <1>1, <1>3 DEF GivenInput
  <2> HIDE DEF request, input, prior
  <2>3. input.catalogs = Exchange!NegotiateCatalogs(request.catalogs)
    BY <2>1, <2>2, InputIs
  <2> QED  BY <2>1, <2>3 DEF IsRequest, request, input
<1>7. Sound(task)
  <2> DEFINE catalogs == said.request.catalogs
             compat == legacyCompat
  <2>1. compat \in BOOLEAN
    BY <1>3 DEF Shape
  <2>2. n \in 1 .. MaxAsked /\ IsSeq(catalogs)
    BY <1>5, <1>6
  <2>3. task = Exchange!ToTask(n, r, Exchange!NegotiateCatalogs(catalogs), compat)
    BY <1>6
  <2> HIDE DEF n, task, catalogs, compat
  <2> QED  BY <2>1, <2>2, <2>3, ToTaskSound
<1>8. /\ IsSeq(first) /\ IsSeq(b) /\ Leads(x, first, x, streams) /\ Leads(x, b, z, streams)
  <2>1. IsTask(prior) /\ streams \in BOOLEAN /\ started \in BOOLEAN /\ IsSeq(deltas) /\ (~ started => deltas = <<>>)
    BY <1>4, <1>5
  <2>2. /\ Tells(streamed, deltas) /\ b = Exchange!FinalTaskEvents(task, prior, started, streamed)
        /\ full = Exchange!Cleared(task, prior, streamed)
        /\ first = Closing(streamed)
    BY DEF Tells, Closing
  <2> HIDE DEF prior, streams, started, deltas, n, agreed, task, b, full, first, streamed
  <2>3. /\ IsSeq(first) /\ IsSeq(b)
        /\ Leads(Running(prior, started, streams, Made(deltas), deltas), first,
                  Running(prior, started, streams, Made(deltas), deltas), streams)
        /\ Leads(Running(prior, started, streams, Made(deltas), deltas), b,
                  Done(prior, streams, Made(deltas), deltas, full), streams)
    BY <1>7, <2>1, <2>2, ConcludesLeads
  <2> QED  BY <2>3
<1>9. Leads(Known, bus, x, streams)
  BY <1>1, <1>3 DEF OnTheWay, Goes, Now
<1>10. IsEnding(said', r)
  BY <1>1, <1>4, EndingIs
<1>11. /\ said' = [a \in SaidFields |-> said'[a]] /\ said'.n = said.n /\ said'.stage = "concluded" /\ said'.request = said.request
       /\ said'.streams = said.streams /\ said'.input = said.input /\ said'.prior = said.prior /\ said'.started = said.started
       /\ said'.deltas = said.deltas /\ said'.result = r
  BY <1>10 DEF IsEnding
<1>12. Known' = Known
  BY <1>1 DEF Known
<1>13. End' = z
  <2>1. Full' = full
    BY <1>1, <1>11 DEF Full
  <2>2. End' = Done(said'.prior, said'.streams, Made(said'.deltas), said'.deltas, Full')
    BY DEF End
  <2> HIDE DEF full
  <2> QED  BY <1>11, <2>1, <2>2
<1>14. IsSeq(bus') /\ Leads(Known, bus', z, streams)
  <2> DEFINE c == bus
             d == c \o first
             k == Known
  <2>1. IsSeq(c) /\ Leads(k, c, x, streams) /\ bus' = d \o b
    BY <1>2, <1>4, <1>9
  <2> HIDE DEF x, z, first, b, c, k, streams
  <2>2. IsSeq(d) /\ Leads(k, d, x, streams)
    BY <1>8, <2>1, JoinFacts, LeadsJoin
  <2> HIDE DEF d
  <2>3. IsSeq(d \o b) /\ Leads(k, d \o b, z, streams)
    BY <1>8, <2>2, JoinFacts, LeadsJoin
  <2> QED  BY <2>1, <2>3 DEF k
<1> HIDE DEF x, z, full, first, b, task, agreed, streamed
<1>15. Shape'
  <2>1. /\ said'.n \in 0 .. MaxAsked /\ said'.stage \in {"idle", "running", "concluded"}
        /\ said'.streams \in BOOLEAN /\ said'.started \in BOOLEAN /\ IsSeq(said'.deltas)
    BY <1>3, <1>11 DEF Shape
  <2>2. IsTask(stored') /\ IsTask(said'.prior) /\ legacyCompat' \in BOOLEAN
    BY <1>1, <1>3, <1>11 DEF Shape
  <2>3. kept' = [a \in {"state", "cut"} |-> kept'[a]] /\ kept'.cut \in BOOLEAN
    BY <1>1, <1>3 DEF Shape
  <2> QED  BY <1>11, <1>14, <2>1, <2>2, <2>3 DEF Shape
<1>16. OnTheWay'
  <2>1. said'.n # 0 /\ answer' = None /\ said'.request \in Requests /\ (~ said'.started => said'.deltas = <<>>)
    BY <1>1, <1>3, <1>5, <1>11 DEF OnTheWay
  <2>2. IsOutcome(said'.result) /\ Leads(Known', bus', End', said'.streams)
    BY <1>11, <1>12, <1>13, <1>14
  <2> QED  BY <1>11, <2>1, <2>2 DEF OnTheWay
<1>17. GivenInput'
  BY <1>1, <1>3, <1>11 DEF GivenInput
<1>18. KeptState'
  BY <1>1, <1>3, <1>11 DEF KeptState
<1>19. Exchange!AnswerExact'
  BY <1>1, <1>5 DEF Exchange!AnswerExact
<1> QED  BY <1>15, <1>16, <1>17, <1>18, <1>19 DEF ExchangeInv

--------------------------------------------------------------------------------
(* What is on its way comes in.                                            *)
LEMMA GoesPop ==
  ASSUME NEW x, NEW b, NEW y, NEW streams, Goes(x, b, y, streams), b # <<>>
  PROVE  Goes(TakeIn(x, Head(b), streams), Tail(b), y, streams) /\ IsProgress(Head(b))
<1>1. IsSeq(b) /\ (\A i \in DOMAIN b : IsProgress(b[i])) /\ Leads(x, b, y, streams)
  BY DEF Goes
<1>2. Leads(TakeIn(x, Head(b), streams), Tail(b), y, streams)
  BY <1>1, LeadsPop
<1>3. /\ IsSeq(Tail(b)) /\ Len(Tail(b)) = Len(b) - 1 /\ Len(b) # 0 /\ Head(b) = b[1]
      /\ \A i \in 1 .. Len(b) - 1 : Tail(b)[i] = b[i + 1]
  BY <1>1, PopFacts
<1>4. DOMAIN b = 1 .. Len(b) /\ Len(b) \in Nat
  BY <1>1, IsSeqFacts
<1>5. DOMAIN Tail(b) = 1 .. Len(b) - 1
  BY <1>3, IsSeqFacts
<1>6. \A i \in 1 .. Len(b) - 1 : IsProgress(Tail(b)[i])
  BY <1>1, <1>3, <1>4
<1>7. IsProgress(Head(b))
  BY <1>1, <1>3, <1>4
<1> QED  BY <1>2, <1>3, <1>5, <1>6, <1>7 DEF Goes

LEMMA DeliverKeeps ==
  ASSUME ExchangeInv, Exchange!Deliver
  PROVE  ExchangeInv'
<1> DEFINE e == Head(bus)
           t == Tail(bus)
           streams == said.streams
<1>1. /\ bus # <<>> /\ stored' = Exchange!Apply(stored, e) /\ bus' = t
      /\ relay' = IF streams THEN Exchange!Drain(relay, e) ELSE relay
      /\ legacyCompat' = legacyCompat /\ said' = said /\ answer' = answer /\ kept' = kept
  BY Zenon DEF Exchange!Deliver
<1>2. Shape /\ OnTheWay /\ GivenInput /\ KeptState
  BY DEF ExchangeInv
<1>3. said.stage \in {"running", "concluded"} /\ answer = None /\ IsTask(stored) /\ IsSeq(bus)
  BY <1>1, <1>2 DEF OnTheWay, Shape
<1>4. Known' = TakeIn(Known, e, streams)
  <2>1. Known' = [stored |-> stored', relay |-> relay']
    BY DEF Known
  <2>2. Known.stored = stored /\ Known.relay = relay
    BY DEF Known
  <2>3. TakeIn(Known, e, streams) = [stored |-> Exchange!Apply(Known.stored, e),
                                     relay |-> IF streams THEN Exchange!Drain(Known.relay, e) ELSE Known.relay]
    BY Zenon DEF TakeIn
  <2> HIDE DEF e
  <2> QED  BY <1>1, <2>1, <2>2, <2>3
<1>5. Now' = Now /\ End' = End
  BY <1>1 DEF Now, End, Full
<1>6. IsTask(stored')
  BY <1>1, <1>3, ApplyShape
<1>7. IsSeq(t)
  BY <1>1, <1>3, PopFacts
<1>8. Shape'
  BY <1>1, <1>2, <1>6, <1>7 DEF Shape
<1>9. GivenInput'
  BY <1>1, <1>2 DEF GivenInput
<1>10. Exchange!AnswerExact'
  BY <1>1, <1>3 DEF Exchange!AnswerExact
<1>11. CASE said.stage = "running"
  <2>1. Goes(Known, bus, Now, streams)
    BY <1>2, <1>11 DEF OnTheWay
  <2>2. Goes(TakeIn(Known, e, streams), t, Now, streams) /\ IsProgress(e)
    <3> DEFINE x == Known
               y == Now
               b == bus
    <3>1. Goes(x, b, y, streams) /\ b # <<>>
      BY <1>1, <2>1
    <3> HIDE DEF x, y, b, streams
    <3>2. Goes(TakeIn(x, Head(b), streams), Tail(b), y, streams) /\ IsProgress(Head(b))
      BY <3>1, GoesPop
    <3> QED  BY <3>2 DEF x, y, b
  <2>3. Goes(Known', bus', Now', said'.streams)
    <3> HIDE DEF e, t
    <3> QED  BY <1>1, <1>4, <1>5, <2>2
  <2>4. OnTheWay'
    BY <1>1, <1>2, <1>11, <2>3 DEF OnTheWay
  <2>5. Keeps(stored, stored')
    <3> DEFINE task == stored
               next == stored'
    <3>1. IsTask(task) /\ next = Exchange!Apply(task, e)
      BY <1>1, <1>3
    <3> HIDE DEF task, next, e
    <3>2. Keeps(task, next)
      BY <2>2, <3>1, ProgressKeeps
    <3> QED  BY <3>2 DEF task, next
  <2>6. KeptState'
    <3>1. stored.status \notin Exchange!Terminal
      BY <1>2, <1>11 DEF KeptState
    <3>2. ~ kept.cut => Exchange!TaskState(stored) = kept.state /\ (stored.status \in Exchange!Terminal \/ Open(stored))
      BY <1>2, <1>11 DEF KeptState
    <3>3. /\ stored'.status \notin Exchange!Terminal /\ stored'.state = stored.state
          /\ Open(stored) => Open(stored')
      BY <2>5, <3>1 DEF Keeps
    <3>4. Exchange!TaskState(stored') = Exchange!TaskState(stored)
      BY <3>3 DEF Exchange!TaskState
    <3> QED  BY <1>1, <3>1, <3>2, <3>3, <3>4 DEF KeptState
  <2> QED  BY <1>8, <1>9, <1>10, <2>4, <2>6 DEF ExchangeInv
<1>12. CASE said.stage = "concluded"
  <2>1. Leads(Known, bus, End, streams) /\ IsOutcome(said.result)
    BY <1>2, <1>12 DEF OnTheWay
  <2>2. Leads(TakeIn(Known, e, streams), t, End, streams)
    <3> DEFINE x == Known
               y == End
               b == bus
    <3>1. Leads(x, b, y, streams) /\ b # <<>> /\ IsSeq(b)
      BY <1>1, <1>3, <2>1
    <3> HIDE DEF x, y, b, streams
    <3>2. Leads(TakeIn(x, Head(b), streams), Tail(b), y, streams)
      BY <3>1, LeadsPop
    <3> QED  BY <3>2 DEF x, y, b
  <2>3. Leads(Known', bus', End', said'.streams)
    <3> HIDE DEF e, t
    <3> QED  BY <1>1, <1>4, <1>5, <2>2
  <2>4. OnTheWay'
    BY <1>1, <1>2, <1>12, <2>1, <2>3 DEF OnTheWay
  <2>6. KeptState'
    BY <1>1, <1>12 DEF KeptState
  <2> QED  BY <1>8, <1>9, <1>10, <2>4, <2>6 DEF ExchangeInv
<1> QED  BY <1>3, <1>11, <1>12

LEMMA RestartKeeps ==
  ASSUME ExchangeInv, Exchange!Restart
  PROVE  ExchangeInv'
<1>1. /\ said.stage \in {"running", "concluded"} /\ bus' = <<>> /\ legacyCompat' \in BOOLEAN
      /\ stored' = stored /\ answer' = answer /\ said' = Exchange!Idle(said.n)
      /\ kept' = [kept EXCEPT !.cut = @ \/ said.stage = "concluded"]
  BY DEF Exchange!Restart
<1>2. Shape /\ OnTheWay /\ KeptState
  BY DEF ExchangeInv
<1>3. IsIdle(said', said.n)
  BY <1>1, IdleFacts
<1>4. /\ said' = [a \in SaidFields |-> said'[a]] /\ said'.n = said.n /\ said'.stage = "idle" /\ said'.streams = FALSE
      /\ said'.prior = Exchange!NoTask /\ said'.started = FALSE /\ said'.deltas = <<>>
  BY <1>3 DEF IsIdle
<1>5. /\ kept' = [a \in {"state", "cut"} |-> kept'[a]] /\ kept'.cut \in BOOLEAN /\ kept'.state = kept.state
      /\ kept'.cut = FALSE => kept.cut = FALSE /\ said.stage # "concluded"
  <2>1. kept = [a \in {"state", "cut"} |-> kept[a]] /\ kept.cut \in BOOLEAN
    BY <1>2 DEF Shape
  <2> DEFINE now == kept.cut \/ said.stage = "concluded"
  <2>2. kept' = [kept EXCEPT !.cut = now]
    BY <1>1
  <2>3. now \in BOOLEAN /\ (now = FALSE => kept.cut = FALSE /\ said.stage # "concluded")
    BY <2>1
  <2> HIDE DEF now
  <2>4. kept' = [a \in {"state", "cut"} |-> kept'[a]] /\ kept'.cut = now /\ kept'.state = kept.state
    BY <2>1, <2>2
  <2> QED  BY <2>3, <2>4
<1>6. Shape'
  <2>1. /\ said'.n \in 0 .. MaxAsked /\ said'.stage \in {"idle", "running", "concluded"}
        /\ said'.streams \in BOOLEAN /\ said'.started \in BOOLEAN
    BY <1>2, <1>4 DEF Shape
  <2>2. IsSeq(said'.deltas) /\ IsSeq(bus')
    BY <1>1, <1>4, NoTexts
  <2>3. IsTask(stored') /\ IsTask(said'.prior)
    BY <1>1, <1>2, <1>4, NothingIsTask DEF Shape
  <2> QED  BY <1>1, <1>4, <1>5, <2>1, <2>2, <2>3 DEF Shape
<1>7. OnTheWay' /\ GivenInput'
  BY <1>1, <1>4 DEF OnTheWay, GivenInput
<1>8. KeptState'
  <2>1. Exchange!TaskState(stored') = Exchange!TaskState(stored) /\ (Open(stored) => Open(stored'))
    BY <1>1
  <2>2. ASSUME ~ kept'.cut
        PROVE  Exchange!TaskState(stored) = kept.state /\ (stored.status \in Exchange!Terminal \/ Open(stored))
    <3>1. kept'.cut = FALSE
      BY <1>5, <2>2
    <3>2. ~ kept.cut /\ said.stage # "concluded"
      BY <1>5, <3>1
    <3> QED  BY <1>2, <3>2 DEF KeptState
  <2> QED  BY <1>1, <1>4, <1>5, <2>1, <2>2 DEF KeptState
<1>9. Exchange!AnswerExact'
  BY <1>1, <1>2 DEF Exchange!AnswerExact, OnTheWay
<1> QED  BY <1>6, <1>7, <1>8, <1>9 DEF ExchangeInv

--------------------------------------------------------------------------------
(* What the caller reads of what the turn left.                            *)
MeantOf(r, known) ==
  IF r.status = "failed" THEN <<>>
  ELSE IF r.status = "input-required" /\ ShownOf(r.followup, known) # <<>> THEN ShownOf(r.followup, known) ELSE ShownOf(r.a2ui, known)

Identified(s) == \A i, j \in DOMAIN s : s[i].id # None /\ (s[i].id = s[j].id => i = j)
TextOf(n, r, deltas) == IF r.message \/ r.status # "completed" THEN <<Exchange!Said(n, What(r), 0)>> ELSE deltas

LEMMA FormShown ==
  ASSUME NEW r, IsOutcome(r), NEW known, r.status = "input-required"
  PROVE  Names(FormOf(r, known)) = Names(MeantOf(r, known)) /\ Identified(FormOf(r, known))
<1> DEFINE items == Asked(r, known)
           form == FormOf(r, known)
<1>1. IsItems(items) /\ IdsApart(items)
  BY FormSeq
<1>2. form = Exchange!EnsureEnvelopeSurfaceIds(items)
  BY DEF FormOf
<1>3. items = MeantOf(r, known)
  BY DEF Asked, MeantOf
<1> HIDE DEF items, form
<1>4. /\ Names(form) = Names(items)
      /\ IdsApart(items) => \A i, j \in DOMAIN form : form[i].id # None /\ (form[i].id = form[j].id => i = j)
  BY <1>1, <1>2, FormIs
<1>5. Identified(form)
  BY <1>1, <1>4 DEF Identified
<1> QED  BY <1>3, <1>4, <1>5 DEF form

LEMMA Returned ==
  ASSUME NEW n \in 1 .. MaxAsked, NEW r, IsOutcome(r), NEW known, NEW compat \in BOOLEAN, NEW deltas, IsSeq(deltas),
         NEW raw, Holds(raw, n, r, known, compat, deltas), NEW a2ui, a2ui = Exchange!ExtractA2ui(raw)
  PROVE  /\ Exchange!ToState(raw) = r.status /\ Exchange!CollectTaskText(raw) = TextOf(n, r, deltas)
         /\ Names(a2ui) = Names(MeantOf(r, known)) /\ (r.status = "input-required" => Identified(a2ui))
<1>1. r.status \in {"completed", "failed", "input-required"}
  BY DEF IsOutcome
<1>2. Exchange!ToState(raw) = r.status
  BY <1>1 DEF Exchange!ToState, Holds
<1>3. Exchange!CollectTaskText(raw) = IF r.message \/ r.status # "completed" THEN <<Exchange!Said(n, What(r), 0)>> ELSE deltas
  BY TextRead
<1>4. a2ui = IF r.status = "completed" THEN ShownOf(r.a2ui, known)
             ELSE IF r.status = "input-required" THEN FormOf(r, known) ELSE <<>>
  BY A2uiRead
<1>5. CASE r.status = "completed"
  <2>1. a2ui = MeantOf(r, known)
    BY <1>4, <1>5 DEF MeantOf
  <2> QED  BY <1>2, <1>3, <1>5, <2>1 DEF TextOf
<1>6. CASE r.status = "input-required"
  <2>1. a2ui = FormOf(r, known)
    BY <1>4, <1>6
  <2> QED  BY <1>2, <1>3, <1>6, <2>1, FormShown DEF TextOf
<1>7. CASE r.status = "failed"
  <2>1. a2ui = MeantOf(r, known)
    BY <1>4, <1>7 DEF MeantOf
  <2> QED  BY <1>2, <1>3, <1>7, <2>1 DEF TextOf
<1> QED  BY <1>1, <1>5, <1>6, <1>7

--------------------------------------------------------------------------------
(* What the turn left, in the store and at the caller.                     *)
IsReturn(u) ==
  /\ u = [a \in SaidFields |-> u[a]] /\ u.n = said.n /\ u.stage = "idle" /\ u.request = said.request
  /\ u.streams = said.streams /\ u.input = said.input /\ u.prior = said.prior /\ u.started = said.started
  /\ u.deltas = said.deltas /\ u.result = said.result

LEMMA ReturnIs == said = [a \in SaidFields |-> said[a]] => IsReturn([said EXCEPT !.stage = "idle"])
BY DEF SaidFields, IsReturn

LEMMA EndedFacts ==
  ASSUME NEW base, NEW held, NEW full, NEW raw, raw = Ended(base, held, full)
  PROVE  raw.status = full.status /\ raw.message = full.message /\ raw.state = State(full, base.state)
         /\ DOMAIN raw.artifacts = DOMAIN full.artifacts \cup (DOMAIN held \cup DOMAIN base.artifacts)
<1> DEFINE in == Exchange!Over(held, base.artifacts)
           A == Exchange!Over(full.artifacts, in)
           st == IF full.state # None THEN full.state ELSE base.state
           s == full.status
           m == full.message
<1>1. raw = Task(s, m, st, A)
  BY DEF Ended
<1>2. DOMAIN A = DOMAIN full.artifacts \cup (DOMAIN held \cup DOMAIN base.artifacts)
  <2> DEFINE f == full.artifacts
             g == base.artifacts
  <2> HIDE DEF f, g
  <2>1. DOMAIN Exchange!Over(held, g) = DOMAIN held \cup DOMAIN g
    BY OverFcn
  <2> DEFINE h == Exchange!Over(held, g)
  <2> HIDE DEF h
  <2>2. DOMAIN Exchange!Over(f, h) = DOMAIN f \cup DOMAIN h
    BY OverFcn
  <2> QED  BY <2>1, <2>2 DEF f, g, h
<1>3. st = State(full, base.state)
  BY DEF State
<1> HIDE DEF A, st, in, s, m
<1>4. raw.status = s /\ raw.message = m /\ raw.state = st /\ raw.artifacts = A
  BY <1>1, TaskFacts
<1> QED  BY <1>2, <1>3, <1>4 DEF s, m

(* The task of a turn, and that task with what it clears.                  *)
IsFull(full, task, prior, n, r, known, compat, streamed) ==
  /\ Sound(task) /\ task.artifacts = ArtifactsOf(n, r, known, compat)
  /\ full = Exchange!Cleared(task, prior, streamed) /\ Sound(full)
  /\ full.status = r.status /\ full.message = MessageOf(n, r, known)
  /\ full.state = IF StateOf(n, r) = None /\ prior.state \notin {None, Exchange!Null} THEN Exchange!Null ELSE StateOf(n, r)
  /\ DOMAIN full.artifacts \subseteq DOMAIN task.artifacts \cup {Exchange!Form, Exchange!Answer}

LEMMA FullIs ==
  ASSUME NEW n \in 1 .. MaxAsked, NEW r, IsOutcome(r), NEW catalogs, IsSeq(catalogs), NEW compat \in BOOLEAN,
         NEW task, task = Exchange!ToTask(n, r, Exchange!NegotiateCatalogs(catalogs), compat),
         NEW prior, NEW streamed, NEW full, full = Exchange!Cleared(task, prior, streamed)
  PROVE  IsFull(full, task, prior, n, r, Shared(catalogs), compat, streamed)
<1> DEFINE known == Shared(catalogs)
           m == MessageOf(n, r, known)
           A == ArtifactsOf(n, r, known, compat)
           s == r.status
           st == StateOf(n, r)
<1>1. Sound(task)
  BY ToTaskSound
<1>2. task = Task(s, m, st, A)
  BY ToTaskIs
<1>3. /\ Sound(full) /\ full.status = task.status /\ full.message = task.message
      /\ full.state = ClearedState(task, prior) /\ Clears(full, task, prior, streamed)
  BY <1>1, FullFacts
<1> HIDE DEF known, m, A, s, st
<1>4. task.status = s /\ task.message = m /\ task.state = st /\ task.artifacts = A
  BY <1>2, TaskFacts
<1>5. DOMAIN full.artifacts \subseteq DOMAIN task.artifacts \cup {Exchange!Form, Exchange!Answer}
  BY <1>3 DEF Clears, Stale
<1>6. full.state = IF st = None /\ prior.state \notin {None, Exchange!Null} THEN Exchange!Null ELSE st
  BY <1>3, <1>4 DEF ClearedState
<1>7. IsFull(full, task, prior, n, r, known, compat, streamed)
  BY <1>1, <1>3, <1>4, <1>5, <1>6 DEF IsFull, m, A, s, st
<1> QED  BY <1>7 DEF known

LEMMA EndHolds ==
  ASSUME NEW n \in 1 .. MaxAsked, NEW r, IsOutcome(r), NEW known, NEW compat \in BOOLEAN,
         NEW task, NEW prior, NEW streamed, NEW full, IsFull(full, task, prior, n, r, known, compat, streamed),
         NEW deltas, Tells(streamed, deltas), Open(prior),
         NEW base, Begins(base, prior), NEW raw, raw = Ended(base, Made(deltas), full)
  PROVE  Holds(raw, n, r, known, compat, deltas)
<1> DEFINE A == ArtifactsOf(n, r, known, compat)
<1>1. /\ Sound(task) /\ A = task.artifacts /\ full = Exchange!Cleared(task, prior, streamed)
      /\ full.status = r.status /\ full.message = MessageOf(n, r, known)
  BY DEF IsFull
<1>2. raw.status = full.status /\ raw.message = full.message
  BY EndedFacts
<1>3. A = ArtifactsOf(n, r, known, compat)
  OBVIOUS
<1> HIDE DEF A
<1>4. ASSUME NEW x \in Ids  PROVE Gets(raw, x, A, deltas)
  <2>1. Sound(task) /\ A = task.artifacts /\ full = Exchange!Cleared(task, prior, streamed)
    BY <1>1
  <2> QED  BY <1>3, <2>1, GetEnded
<1>5. \A x \in Ids : Exchange!ArtifactParts(raw, x) = IF x = Exchange!Answer THEN Texts(deltas) ELSE Get(A, x)
  BY <1>4 DEF Gets
<1> QED  BY <1>1, <1>2, <1>5 DEF Holds, A

(* The store holds the state that the turn left, and no results before the *)
(* task is completed.                                                      *)
LEMMA EndKept ==
  ASSUME NEW n \in 1 .. MaxAsked, NEW r, IsOutcome(r), NEW known, NEW compat \in BOOLEAN,
         NEW task, NEW prior, NEW streamed, NEW full, IsFull(full, task, prior, n, r, known, compat, streamed),
         Open(prior), NEW deltas, NEW raw, raw = Ended(prior, Made(deltas), full)
  PROVE  Exchange!TaskState(raw) = StateOf(n, r) /\ (raw.status \in Exchange!Terminal \/ Open(raw))
<1> DEFINE st == StateOf(n, r)
<1>1. /\ full.status = r.status /\ task.artifacts = ArtifactsOf(n, r, known, compat)
      /\ full.state = IF st = None /\ prior.state \notin {None, Exchange!Null} THEN Exchange!Null ELSE st
      /\ DOMAIN full.artifacts \subseteq DOMAIN task.artifacts \cup {Exchange!Form, Exchange!Answer}
  BY DEF IsFull
<1>2. /\ raw.status = full.status /\ raw.state = State(full, prior.state)
      /\ DOMAIN raw.artifacts = DOMAIN full.artifacts \cup (DOMAIN Made(deltas) \cup DOMAIN prior.artifacts)
  BY EndedFacts
<1>3. Exchange!Null = 0 /\ None \notin Nat /\ (st = n \/ st = None) /\ n # 0 /\ n \in Nat
  BY ExchangeAssumption DEF Exchange!Null, StateOf
<1>4. Exchange!TaskState(raw) = st
  <2> HIDE DEF st
  <2> QED  BY <1>1, <1>2, <1>3 DEF State, Exchange!TaskState
<1>5. ASSUME raw.status \notin Exchange!Terminal  PROVE Open(raw)
  <2>1. r.status = "input-required"
    BY <1>1, <1>2, <1>5 DEF IsOutcome, Exchange!Terminal
  <2>2. DOMAIN task.artifacts \subseteq {Exchange!Form}
    <3> DEFINE parts == <<Exchange!Data(FormOf(r, known))>>
    <3>1. task.artifacts = IF compat THEN One(Exchange!Form, parts) ELSE Exchange!NoArtifacts
      BY <1>1, <2>1 DEF ArtifactsOf
    <3> HIDE DEF parts
    <3>2. DOMAIN One(Exchange!Form, parts) = {Exchange!Form}
      BY OneFacts
    <3> QED  BY <3>1, <3>2, NothingFacts
  <2>3. DOMAIN Made(deltas) \subseteq {Exchange!Answer}
    BY DEF Made
  <2> QED  BY <1>1, <1>2, <2>2, <2>3 DEF Open
<1> QED  BY <1>4, <1>5

--------------------------------------------------------------------------------
LEMMA BothFacts ==
  ASSUME NEW one, NEW other, NEW streams, NEW deltas, NEW x, x = Both(one, other, streams, deltas)
  PROVE  /\ x.stored = one /\ x.relay.task = (IF streams THEN other ELSE Exchange!NoTask)
         /\ x.relay.deltas = (IF streams THEN deltas ELSE <<>>)
BY DEF Both

LEMMA ReturnKeeps ==
  ASSUME ExchangeInv, Exchange!Return
  PROVE  ExchangeInv'
<1> DEFINE raw == IF said.streams THEN relay.task ELSE stored
           n == said.n
           r == said.result
           prior == said.prior
           streams == said.streams
           deltas == said.deltas
           catalogs == said.request.catalogs
           known == Shared(catalogs)
           compat == legacyCompat
           streamed == deltas # <<>>
           task == Exchange!ToTask(n, r, said.input.catalogs, compat)
           full == Exchange!Cleared(task, prior, streamed)
           held == Made(deltas)
           text == Exchange!CollectTaskText(raw)
           a2ui == Exchange!ExtractA2ui(raw)
           status == Exchange!ToState(raw)
<1>1. /\ said.stage = "concluded" /\ bus = <<>>
      /\ answer' = [text |-> text, a2ui |-> a2ui, state |-> status]
      /\ said' = [said EXCEPT !.stage = "idle"]
      /\ kept' = [kept EXCEPT !.state = IF r.state /\ r.status # "failed" THEN n ELSE None]
      /\ legacyCompat' = legacyCompat /\ bus' = bus /\ stored' = stored /\ relay' = relay
  BY Zenon DEF Exchange!Return
<1>2. Shape /\ OnTheWay /\ GivenInput
  BY DEF ExchangeInv
<1>3. /\ said = [a \in SaidFields |-> said[a]] /\ IsSeq(deltas) /\ compat \in BOOLEAN /\ streams \in BOOLEAN
      /\ kept = [a \in {"state", "cut"} |-> kept[a]] /\ kept.cut \in BOOLEAN
  BY <1>2 DEF Shape
<1>4. n \in 1 .. MaxAsked /\ said.request \in Requests /\ IsOutcome(r)
  <2>1. said.n \in 0 .. MaxAsked /\ MaxAsked \in Nat
    BY <1>2, ExchangeAssumption DEF Shape
  <2>2. said.n # 0 /\ said.request \in Requests /\ IsOutcome(r)
    BY <1>1, <1>2 DEF OnTheWay
  <2> QED  BY <2>1, <2>2
<1>5. said.input.catalogs = Exchange!NegotiateCatalogs(catalogs) /\ IsSeq(catalogs)
  <2> DEFINE request == said.request
             input == said.input
  <2>1. IsRequest(request)
    BY <1>4, RequestsAre
  <2>2. input = Exchange!Input(request, prior)
    BY <1>1, <1>2 DEF GivenInput
  <2> HIDE DEF request, input, prior
  <2>3. input.catalogs = Exchange!NegotiateCatalogs(request.catalogs)
    BY <2>1, <2>2, InputIs
  <2> QED  BY <2>1, <2>3 DEF IsRequest, request, input
<1>6. IsFull(full, task, prior, n, r, known, compat, streamed)
  <2>1. task = Exchange!ToTask(n, r, Exchange!NegotiateCatalogs(catalogs), compat)
    BY <1>5
  <2>2. full = Exchange!Cleared(task, prior, streamed)
    OBVIOUS
  <2> HIDE DEF task, full, n, r, catalogs, compat, prior, streamed
  <2>3. IsFull(full, task, prior, n, r, Shared(catalogs), compat, streamed)
    BY <1>3, <1>4, <1>5, <2>1, <2>2, FullIs
  <2> QED  BY <2>3
<1>7. /\ stored = Ended(prior, held, full)
      /\ relay.task = (IF streams THEN Ended(Exchange!NoTask, held, full) ELSE Exchange!NoTask)
      /\ relay.deltas = IF streams THEN deltas ELSE <<>>
  <2>1. Leads(Known, <<>>, End, streams)
    BY <1>1, <1>2 DEF OnTheWay
  <2>2. Known = End
    <3> DEFINE x == Known
               y == End
    <3>1. Leads(x, <<>>, y, streams)
      BY <2>1
    <3> HIDE DEF x, y, streams
    <3>2. x = y
      BY <3>1, LeadsNone
    <3> QED  BY <3>2 DEF x, y
  <2>3. Full = full
    BY DEF Full
  <2> DEFINE one == Ended(prior, held, full)
             other == Ended(Exchange!NoTask, held, full)
             z == Known
  <2>4. z = Both(one, other, streams, deltas)
    <3> HIDE DEF full
    <3> QED  BY <2>2, <2>3 DEF End, Done
  <2>5. z.stored = stored /\ z.relay = relay
    BY DEF Known
  <2> HIDE DEF one, other, streams, deltas, z
  <2>6. /\ z.stored = one /\ z.relay.task = (IF streams THEN other ELSE Exchange!NoTask)
        /\ z.relay.deltas = (IF streams THEN deltas ELSE <<>>)
    BY <2>4, BothFacts
  <2> QED  BY <2>5, <2>6 DEF one, other
<1>8. Tells(streamed, deltas)
  BY DEF Tells
<1>9. ~ kept.cut => Open(prior)
  BY <1>1, <1>2 DEF GivenInput
<1>10. IsReturn(said')
  BY <1>1, <1>3, ReturnIs
<1>11. /\ said' = [a \in SaidFields |-> said'[a]] /\ said'.n = n /\ said'.stage = "idle" /\ said'.request = said.request
       /\ said'.streams = streams /\ said'.input = said.input /\ said'.prior = prior /\ said'.started = said.started
       /\ said'.deltas = deltas /\ said'.result = r
  BY <1>10 DEF IsReturn
<1>12. kept' = [a \in {"state", "cut"} |-> kept'[a]] /\ kept'.cut = kept.cut /\ kept'.state = StateOf(n, r)
  <2> DEFINE left == IF r.state /\ r.status # "failed" THEN n ELSE None
  <2>1. kept' = [kept EXCEPT !.state = left]
    BY <1>1
  <2>2. left = StateOf(n, r)
    BY DEF StateOf
  <2> HIDE DEF left
  <2> QED  BY <1>3, <2>1, <2>2
<1>13. ASSUME ~ kept.cut
       PROVE  /\ status = r.status /\ text = TextOf(n, r, deltas)
              /\ Names(a2ui) = Names(MeantOf(r, known)) /\ (r.status = "input-required" => Identified(a2ui))
  <2> DEFINE base == IF streams THEN Exchange!NoTask ELSE prior
  <2>1. raw = Ended(base, held, full)
    <3> HIDE DEF full, held
    <3> QED  BY <1>3, <1>7
  <2>2. Begins(base, prior) /\ Open(prior)
    BY <1>9, <1>13 DEF Begins
  <2> HIDE DEF raw, base, full, task, prior, n, r, known, compat, streamed
  <2>3. Holds(raw, n, r, known, compat, deltas)
    <3>1. raw = Ended(base, Made(deltas), full)
      BY <2>1
    <3> HIDE DEF deltas, held
    <3> QED  BY <1>3, <1>4, <1>6, <1>8, <2>2, <3>1, EndHolds
  <2>4. a2ui = Exchange!ExtractA2ui(raw)
    OBVIOUS
  <2> HIDE DEF a2ui, deltas
  <2>5. /\ Exchange!ToState(raw) = r.status /\ Exchange!CollectTaskText(raw) = TextOf(n, r, deltas)
        /\ Names(a2ui) = Names(MeantOf(r, known)) /\ (r.status = "input-required" => Identified(a2ui))
    BY <1>3, <1>4, <2>3, <2>4, Returned
  <2> QED  BY <2>5
<1>14. ASSUME ~ kept.cut
       PROVE  Exchange!TaskState(stored) = StateOf(n, r) /\ (stored.status \in Exchange!Terminal \/ Open(stored))
  <2> DEFINE one == stored
  <2>1. one = Ended(prior, Made(deltas), full) /\ Open(prior)
    BY <1>7, <1>9, <1>14
  <2> HIDE DEF one, full, task, prior, n, r, known, compat, streamed, deltas
  <2>2. Exchange!TaskState(one) = StateOf(n, r) /\ (one.status \in Exchange!Terminal \/ Open(one))
    BY <1>3, <1>4, <1>6, <2>1, EndKept
  <2> QED  BY <2>2 DEF one
<1> HIDE DEF text, a2ui, status, full, task, raw
<1>15. Shape'
  <2>1. /\ said'.n \in 0 .. MaxAsked /\ said'.stage \in {"idle", "running", "concluded"}
        /\ said'.streams \in BOOLEAN /\ said'.started \in BOOLEAN /\ IsSeq(said'.deltas)
    BY <1>2, <1>11 DEF Shape
  <2>2. IsTask(stored') /\ IsTask(said'.prior) /\ legacyCompat' \in BOOLEAN /\ IsSeq(bus')
    BY <1>1, <1>2, <1>11 DEF Shape
  <2>3. kept' = [a \in {"state", "cut"} |-> kept'[a]] /\ kept'.cut \in BOOLEAN
    BY <1>3, <1>12
  <2> QED  BY <1>11, <2>1, <2>2, <2>3 DEF Shape
<1>16. OnTheWay' /\ GivenInput'
  BY <1>1, <1>11 DEF OnTheWay, GivenInput
<1>17. KeptState'
  <2>1. Exchange!TaskState(stored') = Exchange!TaskState(stored) /\ (Open(stored) => Open(stored')) /\ stored' = stored
    BY <1>1
  <2> HIDE DEF n, r
  <2> QED  BY <1>11, <1>12, <1>14, <2>1 DEF KeptState
<1>18. Exchange!AnswerExact'
  <2> SUFFICES ASSUME answer' # None, ~ kept'.cut  PROVE Exchange!AnswerExact'
    BY DEF Exchange!AnswerExact
  <2>1. /\ status = r.status /\ text = TextOf(n, r, deltas)
        /\ Names(a2ui) = Names(MeantOf(r, known)) /\ (r.status = "input-required" => Identified(a2ui))
    BY <1>12, <1>13
  <2>2. answer'.text = text /\ answer'.a2ui = a2ui /\ answer'.state = status
    BY <1>1
  <2>3. Exchange!Meant' = MeantOf(r, known)
    <3>1. \A items : Exchange!Pick(items, {i \in DOMAIN items : Exchange!Understood(items[i])'}) = ShownOf(items, known)
      <4>1. \A s : Exchange!Understood(s)' = Understands(s, known)
        BY <1>11 DEF Exchange!Understood, Understands, Shared
      <4> QED  BY <4>1, Zenon DEF ShownOf
    <3> QED  BY <1>11, <3>1 DEF Exchange!Meant, MeantOf
  <2> QED  BY <1>1, <1>7, <1>11, <2>1, <2>2, <2>3 DEF Exchange!AnswerExact, Names, Identified, TextOf, What
<1> QED  BY <1>15, <1>16, <1>17, <1>18 DEF ExchangeInv

--------------------------------------------------------------------------------
LEMMA ExchangeStays == ExchangeInv /\ UNCHANGED exchangeVars => ExchangeInv'
<1> SUFFICES ASSUME ExchangeInv, UNCHANGED exchangeVars  PROVE ExchangeInv'
  OBVIOUS
<1>1. /\ legacyCompat' = legacyCompat /\ said' = said /\ bus' = bus /\ stored' = stored /\ relay' = relay
      /\ answer' = answer /\ kept' = kept
  BY DEF exchangeVars
<1>2. Known' = Known /\ Now' = Now /\ End' = End
  BY <1>1 DEF Known, Now, End, Full
<1>3. Exchange!Meant' = Exchange!Meant
  BY <1>1 DEF Exchange!Meant, Exchange!Understood
<1>4. Shape' /\ GivenInput' /\ KeptState'
  BY <1>1 DEF ExchangeInv, Shape, GivenInput, KeptState
<1>5. OnTheWay'
  BY <1>1, <1>2 DEF ExchangeInv, OnTheWay
<1>6. Exchange!AnswerExact'
  BY <1>1, <1>3 DEF ExchangeInv, Exchange!AnswerExact
<1> QED  BY <1>4, <1>5, <1>6 DEF ExchangeInv

LEMMA ExchangeStep == ExchangeInv /\ [Exchange!ExchangeNext]_exchangeVars => ExchangeInv'
<1> SUFFICES ASSUME ExchangeInv, [Exchange!ExchangeNext]_exchangeVars  PROVE ExchangeInv'
  OBVIOUS
<1>1. CASE UNCHANGED exchangeVars
  BY <1>1, ExchangeStays
<1>2. CASE \E request \in Requests, streams \in BOOLEAN : Exchange!Begin(request, streams)
  BY <1>2, BeginKeeps
<1>3. CASE Exchange!Emit
  BY <1>3, EmitKeeps
<1>4. CASE \E r \in Outcomes : Exchange!Conclude([r EXCEPT !.a2ui = Exchange!Given(@), !.followup = Exchange!Given(@)])
  <2>1. PICK r \in Outcomes : Exchange!Conclude([r EXCEPT !.a2ui = Exchange!Given(@), !.followup = Exchange!Given(@)])
    BY <1>4
  <2> DEFINE g == [r EXCEPT !.a2ui = Exchange!Given(@), !.followup = Exchange!Given(@)]
  <2>2. Exchange!Conclude(g)
    BY <2>1
  <2>3. IsOutcome(g)
    BY OutcomeGiven
  <2> HIDE DEF g
  <2> QED  BY <2>2, <2>3, ConcludeKeeps
<1>5. CASE Exchange!Deliver
  BY <1>5, DeliverKeeps
<1>6. CASE Exchange!Return
  BY <1>6, ReturnKeeps
<1>7. CASE Exchange!Restart
  BY <1>7, RestartKeeps
<1> QED  BY <1>1, <1>2, <1>3, <1>4, <1>5, <1>6, <1>7 DEF Exchange!ExchangeNext

LEMMA WhatIsSaidArrives == ExchangeInv => AnswersArriveOnce
<1> SUFFICES ASSUME ExchangeInv  PROVE AnswersArriveOnce
  OBVIOUS
<1>1. Exchange!AnswerExact
  BY DEF ExchangeInv
<1>2. Exchange!InputExact
  <2> SUFFICES ASSUME said.stage = "running"
               PROVE  LET given == said.input  asked == said.request IN
                        /\ given.data = asked.data /\ given.action = asked.action
                        /\ asked.confirm # None => given.confirm = asked.confirm
                        /\ given.text \in Exchange!ToSet(asked.modes) \cap AgentModes \/ given.text = PlainText
                        /\ Exchange!ToSet(given.catalogs) = Exchange!ToSet(asked.catalogs) \cap AgentCatalogs
                        /\ ~kept.cut => given.state = kept.state
    BY Zenon DEF Exchange!InputExact
  <2> DEFINE request == said.request
             input == said.input
             prior == said.prior
  <2>1. IsRequest(request)
    BY RequestsAre DEF ExchangeInv, OnTheWay
  <2>2. input = Exchange!Input(request, prior) /\ (~ kept.cut => Exchange!TaskState(prior) = kept.state)
    BY DEF ExchangeInv, GivenInput
  <2> HIDE DEF request, input, prior
  <2>3. /\ input.data = request.data /\ input.action = request.action
        /\ request.confirm # None => input.confirm = request.confirm
        /\ input.text \in Exchange!ToSet(request.modes) \cap AgentModes \/ input.text = PlainText
        /\ Exchange!ToSet(input.catalogs) = Shared(request.catalogs)
        /\ input.state = Exchange!TaskState(prior)
    BY <2>1, <2>2, InputIs
  <2>4. Exchange!ToSet(input.catalogs) = Exchange!ToSet(request.catalogs) \cap AgentCatalogs
    BY <2>3 DEF Shared
  <2>5. ~ kept.cut => input.state = kept.state
    BY <2>2, <2>3
  <2> QED  BY <2>3, <2>4, <2>5 DEF request, input
<1> QED  BY <1>1, <1>2 DEF AnswersArriveOnce, Exchange!AnswersArriveOnce

(* The handler is given what was asked, and the relay shows exactly what    *)
(* the turn said, whatever earlier turns of the task left, wherever one is *)
(* cut and whether it streams: finalTaskEvents (build-task.ts), drainStream *)
(* and extract.ts of the relay.                                            *)
THEOREM AnswersArriveSafe == MCSpec => []AnswersArriveOnce
<1>1. MCInit => ExchangeInv
  BY ExchangeStarts DEF MCInit
<1>2. ExchangeInv /\ [MCNext]_allVars => ExchangeInv'
  <2>1. [MCNext]_allVars => [Exchange!ExchangeNext]_exchangeVars
    BY DEF MCNext, allVars
  <2> QED  BY <2>1, ExchangeStep
<1> QED  BY <1>1, <1>2, WhatIsSaidArrives, PTL DEF MCSpec
================================================================================
