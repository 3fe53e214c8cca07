--------------------------- MODULE AuditLogProofs ----------------------------
(***************************************************************************)
(* Proofs about AuditLog for any number of writers and readers, any log    *)
(* and any page size.  The rank of a row in a listing is the number of     *)
(* rows ahead of it.  A page consists of the rows whose ranks lie between  *)
(* its two ends (PageFacts), and a new row moves the others by at most one *)
(* rank, towards the end (RecordGrows).  So a row that a client has not    *)
(* fetched stays ahead of it, and what it fetches again has been moved     *)
(* across the end of a page by a new row, one row for each new one.        *)
(***************************************************************************)
EXTENDS AuditLog, FiniteSetTheorems, TLAPS

(* Every row has a time. *)
LEMMA RowTimes ==
    ASSUME log \in Seq(Rows)
    PROVE  \A i \in 1..Len(log) : log[i].occurred_at \in Nat
<1>1. \A i \in 1..Len(log) : log[i] \in Rows OBVIOUS
<1> QED BY <1>1 DEF Rows

(* A set of rows is finite. *)
LEMMA RowsFinite ==
    ASSUME log \in Seq(Rows), NEW S \in SUBSET (1..Len(log))
    PROVE  IsFiniteSet(S) /\ Cardinality(S) \in Nat
<1>1. IsFiniteSet(1..Len(log)) BY FS_Interval
<1> QED BY <1>1, FS_Subset, FS_CardinalityType

(* One more element adds at most one to the size. *)
LEMMA AddOne ==
    ASSUME NEW S, NEW x, IsFiniteSet(S), NEW T \in SUBSET (S \cup {x})
    PROVE  /\ IsFiniteSet(T) /\ Cardinality(T) \in Nat
           /\ Cardinality(T) <= Cardinality(S) + 1
<1>1. Cardinality(S) \in Nat BY FS_CardinalityType
<1>2. IsFiniteSet(S \cup {x}) /\ Cardinality(S \cup {x}) <= Cardinality(S) + 1
  BY <1>1, FS_AddElement
<1>3. Cardinality(S \cup {x}) \in Nat BY <1>2, FS_CardinalityType
<1>4. IsFiniteSet(T) /\ Cardinality(T) <= Cardinality(S \cup {x}) BY <1>2, FS_Subset
<1>5. Cardinality(T) \in Nat BY <1>4, FS_CardinalityType
<1> QED BY <1>1, <1>2, <1>3, <1>4, <1>5

(* The size of a union of disjoint sets. *)
LEMMA DisjointUnion ==
    ASSUME NEW S, NEW T, IsFiniteSet(S), IsFiniteSet(T), S \cap T = {}
    PROVE  /\ IsFiniteSet(S \cup T)
           /\ Cardinality(S \cup T) = Cardinality(S) + Cardinality(T)
<1>1. Cardinality(S) \in Nat /\ Cardinality(T) \in Nat BY FS_CardinalityType
<1>2. Cardinality(S \cap T) = 0 BY FS_EmptySet
<1>3. /\ IsFiniteSet(S \cup T)
      /\ Cardinality(S \cup T) = Cardinality(S) + Cardinality(T) - Cardinality(S \cap T)
  BY FS_Union
<1> QED BY <1>1, <1>2, <1>3

(* The result of a query is a finite set of rows of the log. *)
LEMMA MatchingFinite ==
    ASSUME log \in Seq(Rows), NEW f
    PROVE  /\ Matching(f) \subseteq 1..Len(log)
           /\ IsFiniteSet(Matching(f))
           /\ Cardinality(Matching(f)) \in Nat
<1>1. Matching(f) \subseteq 1..Len(log) BY DEF Matching
<1>2. IsFiniteSet(1..Len(log)) BY FS_Interval
<1> QED BY <1>1, <1>2, FS_Subset, FS_CardinalityType

(* So are the rows ahead of a row, which are fewer. *)
LEMMA AheadFinite ==
    ASSUME log \in Seq(Rows), NEW f, NEW i \in Matching(f)
    PROVE  /\ Ahead(i, f) \subseteq Matching(f) \ {i}
           /\ IsFiniteSet(Ahead(i, f))
           /\ Cardinality(Ahead(i, f)) \in Nat
           /\ Cardinality(Ahead(i, f)) < Cardinality(Matching(f))
<1>1. \A j \in Matching(f) : log[j].occurred_at \in Nat
  BY MatchingFinite, RowTimes
<1>2. Ahead(i, f) \subseteq Matching(f) \ {i} BY <1>1 DEF Ahead
<1>3. IsFiniteSet(Matching(f) \ {i}) /\ Cardinality(Matching(f) \ {i}) = Cardinality(Matching(f)) - 1
  BY MatchingFinite, FS_RemoveElement
<1>4. IsFiniteSet(Ahead(i, f)) /\ Cardinality(Ahead(i, f)) <= Cardinality(Matching(f) \ {i})
  BY <1>2, <1>3, FS_Subset
<1> QED BY <1>2, <1>3, <1>4, MatchingFinite, FS_CardinalityType

(* What a page contains: the rows with ranks from o to o + l, as far as the  *)
(* times tell the rows apart.                                                *)
LEMMA PageFacts ==
    ASSUME log \in Seq(Rows), NEW f, NEW l \in Nat, NEW o \in Nat, NEW events \in Pages(f, l, o)
    PROVE  /\ events \subseteq Matching(f)
           /\ IsFiniteSet(events)
           /\ Cardinality(events) \in Nat
           /\ events # {} => o + Cardinality(events) <= Cardinality(Matching(f))
           /\ Cardinality(events) < l => Cardinality(Matching(f)) <= o + Cardinality(events)
           /\ \A i \in Matching(f) : AloneInTime(i, f) =>
                /\ i \notin events /\ o <= Cardinality(Ahead(i, f))
                     => o + l <= Cardinality(Ahead(i, f))
                /\ i \in events => /\ o <= Cardinality(Ahead(i, f))
                                   /\ Cardinality(Ahead(i, f)) < o + l
<1> DEFINE M == Matching(f)
<1>0. IsFiniteSet(M) /\ Cardinality(M) \in Nat BY MatchingFinite
<1>1. PICK skipped \in Tops(o, M) : events \in Tops(l, M \ skipped) BY DEF Pages
<1>2. /\ skipped \subseteq M /\ Cardinality(skipped) = Least(o, Cardinality(M))
      /\ Leads(skipped, M)
  BY <1>1 DEF Tops
<1>3. /\ events \subseteq M \ skipped
      /\ Cardinality(events) = Least(l, Cardinality(M \ skipped))
      /\ Leads(events, M \ skipped)
  BY <1>1 DEF Tops
<1>4. IsFiniteSet(skipped) /\ Cardinality(skipped) \in Nat
  BY <1>0, <1>2, FS_Subset, FS_CardinalityType
<1>5. /\ IsFiniteSet(M \ skipped) /\ Cardinality(M \ skipped) \in Nat
      /\ Cardinality(M \ skipped) = Cardinality(M) - Cardinality(skipped)
  <2>1. M \cap skipped = skipped BY <1>2
  <2> QED BY <1>0, <1>4, <2>1, FS_Difference, FS_CardinalityType
<1>6. IsFiniteSet(events) /\ Cardinality(events) \in Nat
  BY <1>3, <1>5, FS_Subset, FS_CardinalityType
<1>7. events # {} => o + Cardinality(events) <= Cardinality(M)
  <2> HAVE events # {}
  <2>1. Cardinality(M \ skipped) # 0 BY <1>3, <1>5, FS_EmptySet
  <2> HIDE DEF M
  <2> QED BY <2>1, <1>0, <1>2, <1>3, <1>4, <1>5 DEF Least
<1>8. Cardinality(events) < l => Cardinality(M) <= o + Cardinality(events)
  <2> HIDE DEF M
  <2> QED BY <1>0, <1>2, <1>3, <1>4, <1>5 DEF Least
<1>9. ASSUME NEW i \in M, AloneInTime(i, f)
      PROVE  /\ i \notin events /\ o <= Cardinality(Ahead(i, f)) => o + l <= Cardinality(Ahead(i, f))
             /\ i \in events => o <= Cardinality(Ahead(i, f)) /\ Cardinality(Ahead(i, f)) < o + l
  <2> DEFINE A == Ahead(i, f)
  <2>1. IsFiniteSet(A) /\ Cardinality(A) \in Nat BY AheadFinite
  <2>2. \A j \in M : log[j].occurred_at \in Nat BY MatchingFinite, RowTimes
  <2>3. \A j \in M \ {i} : log[j].occurred_at >= log[i].occurred_at => j \in A
    BY <2>2, <1>9 DEF Ahead, AloneInTime
  <2>4. \A j \in A : j \in M /\ j # i /\ ~(log[i].occurred_at >= log[j].occurred_at)
    BY <2>2 DEF Ahead
  <2>5. i \notin skipped => skipped \subseteq A /\ Cardinality(skipped) = o
    <3> HAVE i \notin skipped
    <3>1. skipped \subseteq A BY <1>2, <2>3 DEF Leads
    <3>2. Cardinality(skipped) # Cardinality(M) BY <1>0, <1>2, FS_Subset
    <3> HIDE DEF M
    <3> QED BY <3>1, <3>2, <1>0, <1>2 DEF Least
  <2>6. i \in skipped => Cardinality(A) < o
    <3> HAVE i \in skipped
    <3>1. A \subseteq skipped \ {i} BY <1>2, <2>4 DEF Leads
    <3>2. IsFiniteSet(skipped \ {i}) /\ Cardinality(skipped \ {i}) = Cardinality(skipped) - 1
      BY <1>4, FS_RemoveElement
    <3>3. Cardinality(A) <= Cardinality(skipped \ {i}) BY <3>1, <3>2, FS_Subset
    <3> HIDE DEF M, A
    <3> QED BY <3>2, <3>3, <1>0, <1>2, <1>4, <2>1 DEF Least
  <2>7. ASSUME i \notin skipped, i \notin events
        PROVE  o + l <= Cardinality(A)
    <3>1. events \subseteq A BY <1>3, <2>3, <2>7 DEF Leads
    <3>2. Cardinality(events) # Cardinality(M \ skipped) BY <1>3, <1>5, <2>7, FS_Subset
    <3>3. Cardinality(events) = l
      <4> HIDE DEF M
      <4> QED BY <3>2, <1>3, <1>5 DEF Least
    <3>4. skipped \cap events = {} BY <1>3
    <3>5. Cardinality(skipped \cup events) = Cardinality(skipped) + Cardinality(events)
      BY <1>4, <1>6, <3>4, DisjointUnion
    <3>6. Cardinality(skipped \cup events) <= Cardinality(A)
      BY <3>1, <2>5, <2>7, <2>1, FS_Subset
    <3> HIDE DEF A
    <3> QED BY <3>3, <3>5, <3>6, <2>5, <2>7, <2>1, <1>4, <1>6
  <2>8. ASSUME i \in events
        PROVE  o <= Cardinality(A) /\ Cardinality(A) < o + l
    <3>1. i \notin skipped BY <2>8, <1>3
    <3>2. o <= Cardinality(A) BY <3>1, <2>5, <2>1, FS_Subset
    <3>3. A \subseteq skipped \cup (events \ {i}) BY <2>8, <2>4, <1>3 DEF Leads
    <3>4. IsFiniteSet(events \ {i}) /\ Cardinality(events \ {i}) = Cardinality(events) - 1
      BY <2>8, <1>6, FS_RemoveElement
    <3>5. skipped \cap (events \ {i}) = {} BY <1>3
    <3>6. /\ IsFiniteSet(skipped \cup (events \ {i}))
          /\ Cardinality(skipped \cup (events \ {i}))
               = Cardinality(skipped) + Cardinality(events \ {i})
      BY <1>4, <3>4, <3>5, DisjointUnion
    <3>7. Cardinality(A) <= Cardinality(skipped \cup (events \ {i}))
      BY <3>3, <3>6, FS_Subset
    <3>8. Cardinality(events) <= l
      <4> HIDE DEF M
      <4> QED BY <1>3, <1>5 DEF Least
    <3> HIDE DEF A
    <3> QED BY <3>1, <3>2, <3>4, <3>6, <3>7, <3>8, <2>5, <2>1, <1>4, <1>6
  <2> HIDE DEF A
  <2>9. i \in events => i \notin skipped BY <1>3
  <2> QED BY <2>1, <2>6, <2>7, <2>8, <2>9 DEF A
<1> QED BY <1>3, <1>6, <1>7, <1>8, <1>9

-----------------------------------------------------------------------------
(* Types and times *)

(* The empty log satisfies the invariant. *)
LEMMA InitInv == Init => AuditInv
<1> SUFFICES ASSUME Init PROVE AuditInv OBVIOUS
<1>1. TypeOK BY DEF Init, TypeOK, Filters, NoFilter, OrNull
<1>2. TimesOK
  <2>1. OpenTransactions = {} BY DEF Init, OpenTransactions
  <2> QED BY <2>1, FS_EmptySet DEF Init, TimesOK
<1>3. TotalAgrees BY DEF Init, TotalAgrees
<1>4. ASSUME NEW c \in Readers PROVE LateOK(c)
  <2>1. Late(c) = {} /\ OpenTransactions = {} BY DEF Init, Late, OpenTransactions
  <2>2. Cardinality({}) = 0 BY FS_EmptySet
  <2> QED BY <2>1, <2>2 DEF LateOK, Init
<1>5. ASSUME NEW c \in Readers PROVE ReaderOK(c)
  <2>1. Fetched(c) = {} BY DEF Init, Fetched
  <2>2. Again(c) = {} BY <2>1 DEF Again
  <2>3. Matching(query[c]) = {} BY DEF Init, Matching
  <2>4. Owed(c) = {} BY <2>3 DEF Owed
  <2>5. Cardinality({}) = 0 BY FS_EmptySet
  <2>6. Entries(c) = 0 BY DEF Entries, Init
  <2>7. Len(log) - promised[c] = 0 BY DEF Init
  <2> QED BY <2>1, <2>2, <2>4, <2>5, <2>6, <2>7 DEF ReaderOK, Init
<1> QED BY <1>1, <1>2, <1>3, <1>4, <1>5 DEF AuditInv

(* Every operation keeps the types. *)
LEMMA TypeStep ==
    ASSUME TypeOK, TimesOK, [Next]_vars
    PROVE  TypeOK'
<1> USE AuditBoundAssumption
<1>0. CASE UNCHANGED vars BY <1>0 DEF TypeOK, vars, writers, readers
<1>1. ASSUME NEW w \in Writers, NEW now \in clock..MaxTime, Begin(w, now) PROVE TypeOK'
  BY <1>1 DEF TypeOK, Begin, readers, OrNull
<1>2. ASSUME NEW w \in Writers, NEW event \in Events, Record(w, event) PROVE TypeOK'
  <2>1. [event |-> event, occurred_at |-> begun[w]] \in Rows
    BY <1>2 DEF TypeOK, Record, OrNull, Rows
  <2>2. log' \in Seq(Rows) /\ Len(log') = Len(log) + 1 BY <1>2, <2>1 DEF TypeOK, Record
  <2>3. Len(log) \in Nat BY DEF TypeOK
  <2>4. 1..Len(log) \subseteq 1..Len(log') /\ 0..Len(log) \subseteq 0..Len(log') BY <2>2, <2>3
  <2>5. begun' \in [Writers -> OrNull(Nat)] /\ pending' \in [Readers -> SUBSET Writers]
    BY <1>2 DEF TypeOK, Record, Close, OrNull
  <2>6. UNCHANGED <<clock, readers>> BY <1>2 DEF Record
  <2>7. /\ page' \in [Readers -> SUBSET (1..Len(log'))] /\ seen' \in [Readers -> SUBSET (1..Len(log'))]
        /\ listed' \in [Readers -> 0..Len(log')] /\ promised' \in [Readers -> 0..Len(log')]
    BY <2>4, <2>6 DEF TypeOK, readers
  <2> QED BY <2>2, <2>5, <2>6, <2>7 DEF TypeOK, readers
<1>3. ASSUME NEW w \in Writers, End(w) PROVE TypeOK'
  BY <1>3 DEF TypeOK, End, Close, readers, OrNull
<1>4. ASSUME NEW c \in Readers, NEW f \in Filters, NEW l \in 1..MaxLimit, NEW o \in 0..MaxOffset,
             Open(c, f, l, o)
      PROVE  TypeOK'
  <2>1. l \in Nat /\ o \in Nat BY AuditBoundAssumption
  <2>2. log' = log /\ UNCHANGED <<clock, begun, page, total, listed, seen, shown>>
    BY <1>4 DEF Open, writers
  <2>3. pc' \in [Readers -> {"idle", "list", "count", "answered"}] /\ query' \in [Readers -> Filters]
    BY <1>4 DEF TypeOK, Open
  <2>4. limit' \in [Readers -> Nat] /\ offset' \in [Readers -> Nat] /\ first' \in [Readers -> Nat]
    BY <1>4, <2>1 DEF TypeOK, Open
  <2>5. promised' \in [Readers -> 0..Len(log)]
    <3>1. Len(log) \in 0..Len(log) BY DEF TypeOK
    <3> QED BY <1>4, <3>1 DEF TypeOK, Open
  <2>6. opened' \in [Readers -> Nat] /\ pending' \in [Readers -> SUBSET Writers]
    <3>1. Cardinality(OpenTransactions) \in Nat BY FS_CardinalityType DEF TimesOK
    <3>2. OpenTransactions \subseteq Writers BY DEF OpenTransactions
    <3> QED BY <1>4, <3>1, <3>2 DEF TypeOK, Open
  <2> QED BY <2>2, <2>3, <2>4, <2>5, <2>6 DEF TypeOK
<1>5. ASSUME NEW c \in Readers, ListEvents(c) PROVE TypeOK'
  <2>1. PICK events \in Pages(query[c], limit[c], offset[c]) : Lists(c, events)
    BY <1>5 DEF ListEvents
  <2>2. events \subseteq 1..Len(log) BY <2>1, PageFacts, MatchingFinite DEF TypeOK
  <2>3. /\ log' = log
        /\ UNCHANGED <<clock, begun, pending, query, limit, offset, total, first, promised, opened,
                       seen, shown>>
    BY <2>1 DEF Lists, writers
  <2>4. pc' \in [Readers -> {"idle", "list", "count", "answered"}] BY <2>1 DEF TypeOK, Lists
  <2>5. page' \in [Readers -> SUBSET (1..Len(log))] BY <2>1, <2>2 DEF TypeOK, Lists
  <2>6. listed' \in [Readers -> 0..Len(log)]
    <3>1. Len(log) \in 0..Len(log) BY DEF TypeOK
    <3> QED BY <2>1, <3>1 DEF TypeOK, Lists
  <2> QED BY <2>3, <2>4, <2>5, <2>6 DEF TypeOK
<1>6. ASSUME NEW c \in Readers, CountEvents(c) PROVE TypeOK'
  <2>1. Cardinality(Matching(query[c])) \in Nat BY MatchingFinite DEF TypeOK
  <2>2. Cardinality(page[c]) \in Nat BY RowsFinite DEF TypeOK
  <2>3. total' \in [Readers -> Nat] BY <1>6, <2>1 DEF TypeOK, CountEvents
  <2>4. shown' \in [Readers -> Nat] BY <1>6, <2>2 DEF TypeOK, CountEvents
  <2>5. log' = log /\ seen' \in [Readers -> SUBSET (1..Len(log))]
    BY <1>6 DEF TypeOK, CountEvents, writers
  <2> QED BY <1>6, <2>3, <2>4, <2>5 DEF TypeOK, CountEvents, writers
<1>7. ASSUME NEW c \in Readers, NextPage(c) PROVE TypeOK'
  <2>1. /\ pc' \in [Readers -> {"idle", "list", "count", "answered"}]
        /\ offset' \in [Readers -> Nat] /\ total' \in [Readers -> Nat]
    BY <1>7 DEF TypeOK, NextPage
  <2>2. page' \in [Readers -> SUBSET (1..Len(log))] BY <1>7 DEF TypeOK, NextPage
  <2>3. listed' \in [Readers -> 0..Len(log)]
    <3>1. 0 \in 0..Len(log) BY DEF TypeOK
    <3> QED BY <1>7, <3>1 DEF TypeOK, NextPage
  <2>4. log' = log /\ UNCHANGED <<clock, begun, pending, query, limit, first, promised, opened,
                                   seen, shown>>
    BY <1>7 DEF NextPage, writers
  <2> QED BY <2>1, <2>2, <2>3, <2>4 DEF TypeOK
<1>8. ASSUME NEW c \in Readers, Leave(c) PROVE TypeOK'
  <2>1. log' = log /\ UNCHANGED <<clock, begun>> BY <1>8 DEF Leave, writers
  <2>2. NoFilter \in Filters BY DEF Filters, NoFilter, OrNull
  <2>3. pc' \in [Readers -> {"idle", "list", "count", "answered"}] /\ query' \in [Readers -> Filters]
    BY <1>8, <2>2 DEF TypeOK, Leave
  <2>4. /\ limit' \in [Readers -> Nat] /\ offset' \in [Readers -> Nat] /\ total' \in [Readers -> Nat]
        /\ first' \in [Readers -> Nat] /\ shown' \in [Readers -> Nat]
    BY <1>8 DEF TypeOK, Leave
  <2>5. page' \in [Readers -> SUBSET (1..Len(log))] /\ seen' \in [Readers -> SUBSET (1..Len(log))]
    BY <1>8 DEF TypeOK, Leave
  <2>6. listed' \in [Readers -> 0..Len(log)] /\ promised' \in [Readers -> 0..Len(log)]
    <3>1. 0 \in 0..Len(log) BY DEF TypeOK
    <3> QED BY <1>8, <3>1 DEF TypeOK, Leave
  <2>7. opened' \in [Readers -> Nat] /\ pending' \in [Readers -> SUBSET Writers]
    BY <1>8 DEF TypeOK, Leave
  <2> QED BY <2>1, <2>3, <2>4, <2>5, <2>6, <2>7 DEF TypeOK
<1> QED BY <1>0, <1>1, <1>2, <1>3, <1>4, <1>5, <1>6, <1>7, <1>8 DEF Next, Write, Read

(* Time goes forward, and only a transaction that begins is one more. *)
LEMMA TimesStep ==
    ASSUME TypeOK, TimesOK, [Next]_vars
    PROVE  TimesOK'
<1> USE AuditBoundAssumption, AuditNullAssumption
<1>0. \A i \in 1..Len(log) : log[i].occurred_at \in Nat BY RowTimes DEF TypeOK
<1>1. ASSUME NEW w \in Writers, NEW now \in clock..MaxTime, Begin(w, now) PROVE TimesOK'
  <2>1. now >= clock /\ now \in Nat /\ clock \in Nat BY DEF TypeOK
  <2>2. \A i \in 1..Len(log) : log[i].occurred_at <= now BY <2>1, <1>0 DEF TimesOK
  <2>3. log' = log /\ clock' = now BY <1>1 DEF Begin
  <2>4. ASSUME NEW v \in OpenTransactions' PROVE begun'[v] <= now
    <3>1. CASE v = w BY <1>1, <2>1, <3>1 DEF Begin, TypeOK
    <3>2. CASE v # w
      <4>1. v \in OpenTransactions /\ begun'[v] = begun[v]
        BY <1>1, <2>4, <3>2 DEF Begin, TypeOK, OpenTransactions
      <4>2. begun[v] \in Nat BY <4>1 DEF TypeOK, OpenTransactions, OrNull
      <4> QED BY <4>1, <4>2, <2>1 DEF TimesOK
    <3> QED BY <3>1, <3>2
  <2>5. OpenTransactions' \subseteq OpenTransactions \cup {w}
    BY <1>1 DEF Begin, TypeOK, OpenTransactions
  <2>6. IsFiniteSet(OpenTransactions') BY <2>5, AddOne DEF TimesOK
  <2> QED BY <2>2, <2>3, <2>4, <2>6 DEF TimesOK
<1>2. ASSUME NEW w \in Writers, Close(w), clock' = clock
      PROVE  /\ \A v \in OpenTransactions' : begun'[v] <= clock'
             /\ IsFiniteSet(OpenTransactions')
  <2>1. /\ OpenTransactions' \subseteq OpenTransactions
        /\ \A v \in OpenTransactions' : begun'[v] = begun[v]
    BY <1>2 DEF Close, TypeOK, OpenTransactions
  <2> QED BY <1>2, <2>1, FS_Subset DEF TimesOK
<1>3. ASSUME NEW w \in Writers, NEW event \in Events, Record(w, event) PROVE TimesOK'
  <2>1. begun[w] \in Nat /\ begun[w] <= clock
    BY <1>3 DEF Record, TypeOK, OrNull, TimesOK, OpenTransactions
  <2>2. /\ clock' = clock /\ Len(log') = Len(log) + 1
        /\ log'[Len(log) + 1].occurred_at = begun[w]
        /\ \A i \in 1..Len(log) : log'[i] = log[i]
    BY <1>3 DEF Record, TypeOK
  <2>3. Len(log) \in Nat BY DEF TypeOK
  <2>4. \A i \in 1..Len(log') : log'[i].occurred_at <= clock'
    BY <2>1, <2>2, <2>3 DEF TimesOK
  <2> QED BY <2>2, <2>4, <1>2, <1>3 DEF TimesOK, Record
<1>4. ASSUME NEW w \in Writers, End(w) PROVE TimesOK'
  BY <1>2, <1>4 DEF TimesOK, End
<1>5. ASSUME UNCHANGED writers PROVE TimesOK'
  <2>1. OpenTransactions' = OpenTransactions BY <1>5 DEF OpenTransactions, writers
  <2> QED BY <1>5, <2>1 DEF TimesOK, writers
<1>6. ASSUME NEW c \in Readers, Read(c) PROVE UNCHANGED writers
  BY <1>6 DEF Read, Open, ListEvents, Lists, CountEvents, NextPage, Leave
<1> QED BY <1>1, <1>3, <1>4, <1>5, <1>6 DEF Next, Write, vars

(* A set is as large as it is without one of its elements, and one more. *)
LEMMA DropOne ==
    ASSUME NEW S, NEW x \in S, IsFiniteSet(S)
    PROVE  /\ IsFiniteSet(S \ {x}) /\ Cardinality(S \ {x}) \in Nat
           /\ Cardinality(S \ {x}) + 1 = Cardinality(S)
<1>1. IsFiniteSet(S \ {x}) /\ Cardinality(S \ {x}) = Cardinality(S) - 1 BY FS_RemoveElement
<1>2. Cardinality(S \ {x}) \in Nat /\ Cardinality(S) \in Nat BY <1>1, FS_CardinalityType
<1> QED BY <1>1, <1>2

(* What may still be late can be counted. *)
LEMMA LateTypes ==
    ASSUME TypeOK, TimesOK, NEW c \in Readers, LateOK(c)
    PROVE  /\ IsFiniteSet(Late(c)) /\ Cardinality(Late(c)) \in Nat
           /\ IsFiniteSet(pending[c]) /\ Cardinality(pending[c]) \in Nat
           /\ opened[c] \in Nat /\ Len(log) \in Nat /\ promised[c] \in 0..Len(log)
<1>1. opened[c] \in Nat /\ Len(log) \in Nat /\ promised[c] \in 0..Len(log) /\ log \in Seq(Rows)
  BY DEF TypeOK
<1>2. Late(c) \in SUBSET (1..Len(log)) BY <1>1 DEF Late
<1>3. IsFiniteSet(Late(c)) /\ Cardinality(Late(c)) \in Nat BY <1>1, <1>2, RowsFinite
<1>4. IsFiniteSet(pending[c]) /\ Cardinality(pending[c]) \in Nat
  BY FS_Subset, FS_CardinalityType DEF TimesOK, LateOK
<1> QED BY <1>1, <1>3, <1>4

(* What was open when a client began pays for every row it finds late. *)
LEMMA LateStep ==
    ASSUME TypeOK, TimesOK, [Next]_vars, NEW c \in Readers, LateOK(c)
    PROVE  LateOK(c)'
<1> USE AuditNullAssumption
<1>0. /\ IsFiniteSet(Late(c)) /\ Cardinality(Late(c)) \in Nat
      /\ IsFiniteSet(pending[c]) /\ Cardinality(pending[c]) \in Nat
      /\ opened[c] \in Nat /\ Len(log) \in Nat /\ promised[c] \in 0..Len(log)
      /\ \A i \in 1..Len(log) : log[i].occurred_at \in Nat
      /\ \A w \in OpenTransactions : begun[w] \in Nat
  BY LateTypes, RowTimes DEF TypeOK, OpenTransactions, OrNull
<1>1. ASSUME UNCHANGED writers, promised'[c] = promised[c], opened'[c] = opened[c],
             pending'[c] = pending[c]
      PROVE  LateOK(c)'
  <2>1. Late(c)' = Late(c) /\ OpenTransactions' = OpenTransactions
    BY <1>1 DEF Late, OpenTransactions, writers
  <2> QED BY <1>1, <2>1 DEF LateOK, writers
<1>2. ASSUME NEW w \in Writers, NEW now \in clock..MaxTime, Begin(w, now) PROVE LateOK(c)'
  <2>1. /\ log' = log /\ begun' = [begun EXCEPT ![w] = now] /\ begun[w] = NULL
        /\ promised' = promised /\ opened' = opened /\ pending' = pending
    BY <1>2 DEF Begin, readers
  <2>2. now \in Nat /\ now >= clock /\ clock \in Nat BY AuditBoundAssumption DEF TypeOK
  <2>3. Late(c)' = Late(c) BY <2>1 DEF Late
  <2>4. OpenTransactions' = OpenTransactions \cup {w} /\ w \notin OpenTransactions
    BY <2>1, <2>2 DEF OpenTransactions, TypeOK
  <2>5. ASSUME NEW v \in OpenTransactions' \ pending'[c], NEW i \in 1..promised'[c]
        PROVE  log'[i].occurred_at <= begun'[v]
    <3>1. i \in 1..Len(log) BY <2>1, <1>0
    <3>2. CASE v = w
      <4>1. log[i].occurred_at <= clock BY <3>1 DEF TimesOK
      <4>2. begun'[v] = now BY <2>1, <3>2 DEF TypeOK
      <4> QED BY <4>1, <4>2, <3>1, <2>1, <2>2, <1>0
    <3>3. CASE v # w
      <4>1. begun'[v] = begun[v] /\ v \in OpenTransactions \ pending[c]
        BY <2>1, <2>4, <3>3 DEF TypeOK, OpenTransactions
      <4> QED BY <4>1, <2>1 DEF LateOK
    <3> QED BY <3>2, <3>3
  <2> QED BY <2>1, <2>3, <2>4, <2>5 DEF LateOK
<1>3. ASSUME NEW w \in Writers, Close(w)
      PROVE  /\ pending'[c] = pending[c] \ {w} /\ w \notin OpenTransactions'
             /\ OpenTransactions' = OpenTransactions \ {w}
             /\ \A v \in OpenTransactions' : begun'[v] = begun[v]
  BY <1>3 DEF Close, TypeOK, OpenTransactions
<1>4. ASSUME NEW w \in Writers, NEW event \in Events, Record(w, event) PROVE LateOK(c)'
  <2> DEFINE n == Len(log) + 1
  <2>1. /\ Close(w) /\ w \in OpenTransactions /\ promised' = promised /\ opened' = opened
    BY <1>4 DEF Record, readers, OpenTransactions
  <2>2. /\ Len(log') = n /\ log'[n].occurred_at = begun[w]
        /\ \A i \in 1..Len(log) : log'[i] = log[i]
    BY <1>4 DEF Record, TypeOK
  <2>3. ASSUME NEW i \in 1..promised[c] PROVE i \in 1..Len(log) /\ log'[i] = log[i]
    BY <2>2, <1>0
  <2>4. promised[c] + 1..Len(log') = (promised[c] + 1..Len(log)) \cup {n} /\ n \notin 1..Len(log)
    BY <2>2, <1>0
  <2>5. /\ Late(c)' \subseteq Late(c) \cup {n}
        /\ n \in Late(c)' => \E j \in 1..promised[c] : begun[w] < log[j].occurred_at
    <3>1. \A i \in promised[c] + 1..Len(log) : log'[i] = log[i] BY <2>2, <1>0
    <3> HIDE DEF n
    <3> QED BY <2>1, <2>2, <2>3, <2>4, <3>1 DEF Late
  <2>6. n \in Late(c)' => w \in pending[c]
    <3> SUFFICES ASSUME n \in Late(c)', w \notin pending[c] PROVE FALSE OBVIOUS
    <3>1. PICK j \in 1..promised[c] : begun[w] < log[j].occurred_at BY <2>5
    <3>2. log[j].occurred_at <= begun[w] BY <2>1, <3>1 DEF LateOK
    <3>3. j \in 1..Len(log) BY <1>0, <3>1
    <3>4. log[j].occurred_at \in Nat /\ begun[w] \in Nat BY <1>0, <2>1, <3>3
    <3> QED BY <3>1, <3>2, <3>4
  <2>7. IsFiniteSet(Late(c)') /\ Cardinality(Late(c)') \in Nat
        /\ Cardinality(Late(c)') <= Cardinality(Late(c)) + 1
    BY <2>5, <1>0, AddOne
  <2>8. /\ IsFiniteSet(pending'[c]) /\ Cardinality(pending'[c]) \in Nat
        /\ Cardinality(pending'[c]) <= Cardinality(pending[c])
        /\ w \in pending[c] => Cardinality(pending'[c]) + 1 = Cardinality(pending[c])
    <3>1. pending'[c] = pending[c] \ {w} BY <1>3, <2>1
    <3>2. IsFiniteSet(pending'[c]) /\ Cardinality(pending'[c]) <= Cardinality(pending[c])
      BY <3>1, <1>0, FS_Subset
    <3> QED BY <3>1, <3>2, <1>0, DropOne, FS_CardinalityType
  <2>9. n \notin Late(c)' => Cardinality(Late(c)') <= Cardinality(Late(c))
    BY <2>5, <1>0, FS_Subset
  <2>10. Cardinality(Late(c)) + Cardinality(pending[c]) <= opened[c] BY DEF LateOK
  <2>11. Cardinality(Late(c)') + Cardinality(pending'[c]) <= opened'[c]
    <3> HIDE DEF n
    <3>1. opened'[c] = opened[c] BY <2>1
    <3>2. CASE n \in Late(c)' BY <3>1, <3>2, <2>6, <2>7, <2>8, <2>10, <1>0
    <3>3. CASE n \notin Late(c)' BY <3>1, <3>3, <2>7, <2>8, <2>9, <2>10, <1>0
    <3> QED BY <3>2, <3>3
  <2>12. \A v \in OpenTransactions' \ pending'[c], i \in 1..promised'[c] :
           log'[i].occurred_at <= begun'[v]
    BY <1>3, <2>1, <2>3 DEF LateOK
  <2> QED BY <1>3, <2>1, <2>11, <2>12 DEF LateOK
<1>5. ASSUME NEW w \in Writers, End(w) PROVE LateOK(c)'
  <2>1. /\ Close(w) /\ log' = log /\ promised' = promised /\ opened' = opened
    BY <1>5 DEF End, readers
  <2>2. Late(c)' = Late(c) BY <2>1 DEF Late
  <2>3. Cardinality(pending'[c]) <= Cardinality(pending[c]) /\ Cardinality(pending'[c]) \in Nat
    BY <1>0, <1>3, <2>1, FS_Subset, FS_CardinalityType
  <2>4. Cardinality(Late(c)') + Cardinality(pending'[c]) <= opened'[c]
    BY <2>1, <2>2, <2>3, <1>0 DEF LateOK
  <2> QED BY <1>3, <2>1, <2>4 DEF LateOK
<1>6. ASSUME NEW d \in Readers, Read(d)
      PROVE  LateOK(c)'
  <2>1. UNCHANGED writers
    BY <1>6 DEF Read, Open, ListEvents, Lists, CountEvents, NextPage, Leave
  <2>2. CASE d # c \/ ListEvents(d) \/ CountEvents(d) \/ NextPage(d)
    <3>1. promised'[c] = promised[c] /\ opened'[c] = opened[c] /\ pending'[c] = pending[c]
      <4>1. CASE ListEvents(d) BY <4>1 DEF ListEvents, Lists
      <4>2. CASE CountEvents(d) BY <4>2 DEF CountEvents
      <4>3. CASE NextPage(d) BY <4>3 DEF NextPage
      <4>4. ASSUME d # c, NEW f \in Filters, NEW l \in 1..MaxLimit, NEW o \in 0..MaxOffset,
                   Open(d, f, l, o)
            PROVE  promised'[c] = promised[c] /\ opened'[c] = opened[c]
                   /\ pending'[c] = pending[c]
        BY <4>4 DEF Open, TypeOK
      <4>5. CASE d # c /\ Leave(d) BY <4>5 DEF Leave, TypeOK
      <4> QED BY <1>6, <2>2, <4>1, <4>2, <4>3, <4>4, <4>5 DEF Read
    <3> QED BY <1>1, <2>1, <3>1
  <2>3. OpenTransactions' = OpenTransactions /\ log' = log /\ begun' = begun
    BY <2>1 DEF OpenTransactions, writers
  <2>4. ASSUME NEW f \in Filters, NEW l \in 1..MaxLimit, NEW o \in 0..MaxOffset, Open(c, f, l, o)
        PROVE  LateOK(c)'
    <3>1. /\ promised'[c] = Len(log) /\ pending'[c] = OpenTransactions
          /\ opened'[c] = Cardinality(OpenTransactions)
      BY <2>4 DEF Open, TypeOK
    <3>2. Len(log) + 1..Len(log) = {} BY <1>0
    <3>3. Late(c)' = {} BY <2>3, <3>1, <3>2 DEF Late
    <3>4. Cardinality(Late(c)') = 0 BY <3>3, FS_EmptySet
    <3>5. Cardinality(OpenTransactions) \in Nat BY FS_CardinalityType DEF TimesOK
    <3> QED BY <2>3, <3>1, <3>4, <3>5 DEF LateOK
  <2>5. CASE Leave(c)
    <3>1. promised'[c] = 0 /\ pending'[c] = {} /\ opened'[c] = 0 BY <2>5 DEF Leave, TypeOK
    <3>2. Late(c)' = {} BY <3>1 DEF Late
    <3>3. Cardinality({}) = 0 BY FS_EmptySet
    <3> QED BY <3>1, <3>2, <3>3 DEF LateOK
  <2> QED BY <1>6, <2>2, <2>4, <2>5 DEF Read
<1>7. CASE UNCHANGED vars BY <1>1, <1>7 DEF vars, readers
<1> QED BY <1>2, <1>4, <1>5, <1>6, <1>7 DEF Next, Write

-----------------------------------------------------------------------------
(* Readers *)

(* A later row is ahead of an earlier one, and so is what is ahead of it. *)
LEMMA RankOrder ==
    ASSUME log \in Seq(Rows), NEW f, NEW i \in Matching(f), NEW j \in Matching(f),
           log[i].occurred_at > log[j].occurred_at
    PROVE  Cardinality(Ahead(i, f)) < Cardinality(Ahead(j, f))
<1>1. \A k \in Matching(f) : log[k].occurred_at \in Nat BY MatchingFinite, RowTimes
<1>2. Ahead(i, f) \subseteq Ahead(j, f) \ {i} /\ i \in Ahead(j, f) BY <1>1 DEF Ahead
<1>3. IsFiniteSet(Ahead(j, f)) /\ Cardinality(Ahead(j, f)) \in Nat /\ Cardinality(Ahead(i, f)) \in Nat
  BY AheadFinite
<1>4. /\ IsFiniteSet(Ahead(j, f) \ {i})
      /\ Cardinality(Ahead(j, f) \ {i}) = Cardinality(Ahead(j, f)) - 1
  BY <1>2, <1>3, FS_RemoveElement
<1>5. Cardinality(Ahead(i, f)) <= Cardinality(Ahead(j, f) \ {i}) BY <1>2, <1>4, FS_Subset
<1> QED BY <1>3, <1>4, <1>5

(* Without ties no two rows have the same rank. *)
LEMMA RanksDiffer ==
    ASSUME log \in Seq(Rows), NEW f, NoTies(f), NEW i \in Matching(f), NEW j \in Matching(f),
           Cardinality(Ahead(i, f)) = Cardinality(Ahead(j, f))
    PROVE  i = j
<1>1. log[i].occurred_at \in Nat /\ log[j].occurred_at \in Nat BY MatchingFinite, RowTimes
<1>2. Cardinality(Ahead(i, f)) \in Nat /\ Cardinality(Ahead(j, f)) \in Nat BY AheadFinite
<1>3. ~(log[i].occurred_at > log[j].occurred_at) BY <1>2, RankOrder
<1>4. ~(log[j].occurred_at > log[i].occurred_at) BY <1>2, RankOrder
<1> QED BY <1>1, <1>3, <1>4 DEF NoTies, AloneInTime

(* What a client has fetched is finite. *)
LEMMA ReaderTypes ==
    ASSUME TypeOK, NEW c \in Readers
    PROVE  /\ offset[c] \in Nat /\ limit[c] \in Nat /\ total[c] \in Nat /\ shown[c] \in Nat
           /\ Len(log) \in Nat /\ listed[c] \in 0..Len(log) /\ promised[c] \in 0..Len(log)
           /\ Reached(c) \in Nat /\ Entries(c) \in Nat
           /\ IsFiniteSet(page[c]) /\ Cardinality(page[c]) \in Nat
           /\ IsFiniteSet(seen[c]) /\ Cardinality(seen[c]) \in Nat
           /\ IsFiniteSet(Fetched(c)) /\ Cardinality(Fetched(c)) \in Nat
           /\ IsFiniteSet(Again(c)) /\ Cardinality(Again(c)) \in Nat
<1>1. /\ offset[c] \in Nat /\ limit[c] \in Nat /\ total[c] \in Nat /\ shown[c] \in Nat
      /\ Len(log) \in Nat /\ listed[c] \in 0..Len(log) /\ promised[c] \in 0..Len(log)
      /\ log \in Seq(Rows)
  BY DEF TypeOK
<1>2. page[c] \in SUBSET (1..Len(log)) /\ seen[c] \in SUBSET (1..Len(log)) BY DEF TypeOK
<1>3. Fetched(c) \in SUBSET (1..Len(log)) /\ Again(c) \in SUBSET (1..Len(log))
  BY <1>2 DEF Fetched, Again
<1>4. IsFiniteSet(page[c]) /\ Cardinality(page[c]) \in Nat BY <1>1, <1>2, RowsFinite
<1>5. IsFiniteSet(seen[c]) /\ Cardinality(seen[c]) \in Nat BY <1>1, <1>2, RowsFinite
<1>6. IsFiniteSet(Fetched(c)) /\ Cardinality(Fetched(c)) \in Nat BY <1>1, <1>3, RowsFinite
<1>7. IsFiniteSet(Again(c)) /\ Cardinality(Again(c)) \in Nat BY <1>1, <1>3, RowsFinite
<1>8. Reached(c) \in Nat /\ Entries(c) \in Nat BY <1>1, <1>4 DEF Reached, Entries
<1> QED BY <1>1, <1>4, <1>5, <1>6, <1>7, <1>8

(* A listing that is the same for a client has the same ranks. *)
LEMMA SameListing ==
    ASSUME NEW c \in Readers, log' = log, query'[c] = query[c], promised'[c] = promised[c]
    PROVE  /\ Matching(query[c])' = Matching(query[c])
           /\ \A i : Ahead(i, query[c])' = Ahead(i, query[c])
           /\ \A i : AloneInTime(i, query[c])' <=> AloneInTime(i, query[c])
           /\ Owed(c)' = Owed(c)
           /\ NoTies(query[c])' <=> NoTies(query[c])
<1>1. Matching(query[c])' = Matching(query[c]) BY DEF Matching, Matches
<1>2. \A i : AloneInTime(i, query[c])' <=> AloneInTime(i, query[c]) BY <1>1 DEF AloneInTime
<1>3. \A i : Ahead(i, query[c])' = Ahead(i, query[c]) BY <1>1 DEF Ahead
<1>4. Owed(c)' = Owed(c) BY <1>1, <1>2 DEF Owed
<1>5. NoTies(query[c])' <=> NoTies(query[c]) BY <1>1, <1>2 DEF NoTies
<1> QED BY <1>1, <1>2, <1>3, <1>4, <1>5

(* A client whose parameters, pages and log stay the same keeps what it has. *)
LEMMA SameReader ==
    ASSUME NEW c \in Readers, ReaderOK(c), log' = log,
           pc'[c] = pc[c], query'[c] = query[c], limit'[c] = limit[c], offset'[c] = offset[c],
           page'[c] = page[c], total'[c] = total[c], listed'[c] = listed[c],
           first'[c] = first[c], promised'[c] = promised[c], seen'[c] = seen[c],
           shown'[c] = shown[c]
    PROVE  ReaderOK(c)' /\ (Fits(c, total[c])' <=> Fits(c, total[c]))
<1>1. /\ Matching(query[c])' = Matching(query[c]) /\ Owed(c)' = Owed(c)
      /\ \A i : Ahead(i, query[c])' = Ahead(i, query[c])
      /\ NoTies(query[c])' <=> NoTies(query[c])
  BY SameListing
<1>2. /\ Fetched(c)' = Fetched(c) /\ Reached(c)' = Reached(c) /\ Entries(c)' = Entries(c)
  BY DEF Fetched, Reached, Entries
<1>3. Again(c)' = Again(c) BY <1>1, <1>2 DEF Again
<1>4. /\ Fits(c, total[c])' <=> Fits(c, total[c])
      /\ Fits(c, Cardinality(Matching(query[c])))' <=> Fits(c, Cardinality(Matching(query[c])))
  BY <1>1 DEF Fits
<1> QED BY <1>1, <1>2, <1>3, <1>4 DEF ReaderOK

(* A new row joins a listing without changing the order of the others. *)
LEMMA RecordGrows ==
    ASSUME TypeOK, NEW w \in Writers, NEW event \in Events, Record(w, event), NEW c \in Readers
    PROVE  LET n == Len(log) + 1 IN
           /\ Len(log') = n
           /\ Matching(query[c]) \subseteq Matching(query[c])'
           /\ Matching(query[c])' \subseteq Matching(query[c]) \cup {n}
           /\ \A i \in Matching(query[c]) :
                /\ Ahead(i, query[c]) \subseteq Ahead(i, query[c])'
                /\ Ahead(i, query[c])' \subseteq Ahead(i, query[c]) \cup {n}
                /\ AloneInTime(i, query[c])' => AloneInTime(i, query[c])
<1> DEFINE n == Len(log) + 1
<1>1. /\ Len(log') = n /\ \A i \in 1..Len(log) : log'[i] = log[i]
      /\ query' = query /\ Len(log) \in Nat
  BY DEF Record, readers, TypeOK
<1>2. 1..Len(log') = (1..Len(log)) \cup {n} BY <1>1
<1> HIDE DEF n
<1>3. /\ Matching(query[c]) \subseteq Matching(query[c])'
      /\ Matching(query[c])' \subseteq Matching(query[c]) \cup {n}
  BY <1>1, <1>2 DEF Matching, Matches
<1>4. \A i \in Matching(query[c]) : i \in 1..Len(log) /\ log'[i] = log[i] BY <1>1 DEF Matching
<1>5. \A i \in Matching(query[c]) :
        /\ Ahead(i, query[c]) \subseteq Ahead(i, query[c])'
        /\ Ahead(i, query[c])' \subseteq Ahead(i, query[c]) \cup {n}
  BY <1>3, <1>4 DEF Ahead
<1>6. \A i \in Matching(query[c]) : AloneInTime(i, query[c])' => AloneInTime(i, query[c])
  BY <1>3, <1>4 DEF AloneInTime
<1> QED BY <1>1, <1>3, <1>5, <1>6 DEF n

(* A new row leaves every client with what it has: at most one row it has    *)
(* fetched moves across the end of what it has reached.                      *)
LEMMA RecordReader ==
    ASSUME TypeOK, TypeOK', NEW w \in Writers, NEW event \in Events, Record(w, event),
           NEW c \in Readers, ReaderOK(c), pc[c] = "answered" => Fits(c, total[c])
    PROVE  ReaderOK(c)' /\ (pc'[c] = "answered" => Fits(c, total[c])')
<1> DEFINE f == query[c]
           M == Matching(query[c])
           n == Len(log) + 1
<1>1. /\ Len(log') = n /\ M \subseteq M' /\ M' \subseteq M \cup {n}
      /\ \A i \in M : /\ Ahead(i, query[c]) \subseteq Ahead(i, query[c])'
                      /\ Ahead(i, query[c])' \subseteq Ahead(i, query[c]) \cup {n}
                      /\ AloneInTime(i, query[c])' => AloneInTime(i, query[c])
  BY RecordGrows
<1>2. UNCHANGED readers BY DEF Record
<1>3. /\ Fetched(c)' = Fetched(c) /\ Reached(c)' = Reached(c) /\ Entries(c)' = Entries(c)
  BY <1>2 DEF Fetched, Reached, Entries, readers
<1>4. /\ IsFiniteSet(M) /\ Cardinality(M) \in Nat /\ IsFiniteSet(M') /\ Cardinality(M') \in Nat
      /\ M \subseteq 1..Len(log) /\ Len(log) \in Nat
  <2>1. log \in Seq(Rows) /\ log' \in Seq(Rows) BY DEF TypeOK
  <2>2. IsFiniteSet(1..Len(log')) /\ M' \subseteq 1..Len(log') BY <2>1, FS_Interval DEF Matching
  <2> QED BY <2>1, <2>2, MatchingFinite, FS_Subset, FS_CardinalityType
<1>5. Cardinality(M) <= Cardinality(M') /\ Cardinality(M') <= Cardinality(M) + 1
  <2>1. Cardinality(M') <= Cardinality(M) + 1 BY <1>1, <1>4, AddOne
  <2>2. Cardinality(M) <= Cardinality(M') BY <1>1, <1>4, FS_Subset
  <2> QED BY <2>1, <2>2
<1>6. ASSUME NEW i \in M
      PROVE  /\ Cardinality(Ahead(i, query[c])) \in Nat /\ Cardinality(Ahead(i, query[c])') \in Nat
             /\ Cardinality(Ahead(i, query[c])) <= Cardinality(Ahead(i, query[c])')
             /\ Cardinality(Ahead(i, query[c])') <= Cardinality(Ahead(i, query[c])) + 1
  <2> DEFINE A == Ahead(i, query[c])
  <2>1. IsFiniteSet(A) /\ Cardinality(A) \in Nat BY AheadFinite DEF TypeOK
  <2>2. A \subseteq A' /\ A' \subseteq A \cup {n} BY <1>1
  <2> HIDE DEF A
  <2>3. IsFiniteSet(A') /\ Cardinality(A') <= Cardinality(A) + 1 /\ Cardinality(A') \in Nat
    BY <2>1, <2>2, AddOne
  <2>4. Cardinality(A) <= Cardinality(A') BY <2>2, <2>3, FS_Subset
  <2> QED BY <2>1, <2>3, <2>4 DEF A
<1>7. Fetched(c)' \subseteq M' BY <1>1, <1>3 DEF ReaderOK
<1>8. /\ pc[c] = "answered" => Fits(c, total[c])'
      /\ pc[c] = "count" => Fits(c, Cardinality(Matching(query[c])))'
  <2>1. /\ offset'[c] = offset[c] /\ limit'[c] = limit[c] /\ page'[c] = page[c]
        /\ listed'[c] = listed[c] /\ total'[c] = total[c]
    BY <1>2 DEF readers
  <2>2. /\ offset[c] \in Nat /\ limit[c] \in Nat /\ Cardinality(page[c]) \in Nat /\ total[c] \in Nat
        /\ listed[c] \in 0..Len(log)
    BY ReaderTypes
  <2>4. pc[c] = "count" => Fits(c, Cardinality(M)) BY DEF ReaderOK
  <2> HIDE DEF M
  <2>6. \A end, k, m, len, x \in Nat :
          k <= m /\ m <= k + 1 => /\ end <= k => end <= m
                                  /\ k <= end + (len - x) => m <= end + ((len + 1) - x)
    OBVIOUS
  <2>7. /\ offset[c] + Cardinality(page[c]) \in Nat /\ Len(log) \in Nat /\ listed[c] \in Nat
        /\ Len(log') = Len(log) + 1
    BY <2>2, <1>1, <1>4
  <2>8. total[c] <= total[c] /\ total[c] <= total[c] + 1 BY <2>2
  <2>3. pc[c] = "answered" => Fits(c, total[c])' BY <2>1, <2>2, <2>6, <2>7, <2>8 DEF Fits
  <2>5. pc[c] = "count" => Fits(c, Cardinality(M))'
    <3>1. Cardinality(M) \in Nat /\ Cardinality(M') \in Nat BY <1>4
    <3> QED BY <2>1, <2>4, <2>6, <2>7, <1>5, <3>1 DEF Fits
  <2> QED BY <2>3, <2>5 DEF M
<1>9. ASSUME first[c] = 0, NEW i \in Owed(c)' \ Fetched(c)'
      PROVE  /\ Reached(c)' <= Cardinality(Ahead(i, query[c])')
             /\ pc'[c] = "answered" => Reached(c)' < total'[c]
  <2>1. i \in M' /\ i <= promised[c] /\ AloneInTime(i, query[c])' /\ promised[c] <= Len(log)
    BY <1>2 DEF Owed, readers, TypeOK
  <2>2. i \in M
    <3>1. promised[c] \in Nat BY DEF TypeOK
    <3>2. i # n BY <2>1, <1>4, <3>1
    <3> QED BY <3>2, <2>1, <1>1
  <2>3. i \in Owed(c) \ Fetched(c) BY <2>1, <2>2, <1>1, <1>3 DEF Owed
  <2>4. Reached(c) <= Cardinality(Ahead(i, query[c])) /\ (pc[c] = "answered" => Reached(c) < total[c])
    BY <1>9, <2>3 DEF ReaderOK
  <2>5. Reached(c) \in Nat BY ReaderTypes
  <2>6. pc'[c] = pc[c] /\ total'[c] = total[c] BY <1>2 DEF readers
  <2>7. Reached(c)' <= Cardinality(Ahead(i, query[c])') BY <2>2, <2>4, <2>5, <1>3, <1>6
  <2> QED BY <2>4, <2>6, <2>7, <1>3
<1>10. ASSUME NoTies(query[c])'
       PROVE  Entries(c)' + Cardinality(Again(c)')
                <= Cardinality(Fetched(c)') + (Len(log') - promised'[c])
  <2>1. NoTies(query[c]) BY <1>10, <1>1 DEF NoTies
  <2>2. /\ Reached(c) \in Nat /\ Entries(c) \in Nat /\ promised[c] \in 0..Len(log)
        /\ Cardinality(Fetched(c)) \in Nat
    BY ReaderTypes
  <2>3. IsFiniteSet(Again(c)) /\ Cardinality(Again(c)) \in Nat
    BY ReaderTypes
  <2>4. \A i \in Again(c)' \ Again(c) :
          i \in M /\ Cardinality(Ahead(i, query[c])) = Reached(c) - 1
    BY <1>3, <1>6, <2>2 DEF Again, ReaderOK
  <2>5. PICK x : Again(c)' \subseteq Again(c) \cup {x}
    <3>1. \A i, j \in Again(c)' \ Again(c) : i = j BY <2>1, <2>4, RanksDiffer DEF TypeOK
    <3>2. CASE Again(c)' \subseteq Again(c) BY <3>2
    <3>3. CASE ~(Again(c)' \subseteq Again(c))
      <4>1. PICK x \in Again(c)' \ Again(c) : TRUE BY <3>3
      <4> QED BY <3>1, <4>1
    <3> QED BY <3>2, <3>3
  <2>8. Cardinality(Again(c)') <= Cardinality(Again(c)) + 1 /\ Cardinality(Again(c)') \in Nat
    BY <2>3, <2>5, AddOne
  <2>9. Entries(c) + Cardinality(Again(c)) <= Cardinality(Fetched(c)) + (Len(log) - promised[c])
    BY <2>1 DEF ReaderOK
  <2>10. promised'[c] = promised[c] BY <1>2 DEF readers
  <2>11. Len(log') = Len(log) + 1 /\ Len(log) \in Nat BY <1>1, <1>4
  <2>12. promised[c] \in Nat BY <2>2, <2>11
  <2>13. Entries(c) + Cardinality(Again(c)')
           <= Cardinality(Fetched(c)) + ((Len(log) + 1) - promised[c])
    <3>1. \A e, a, b, f0, l, p \in Nat :
            e + a <= f0 + (l - p) /\ b <= a + 1 => e + b <= f0 + ((l + 1) - p)
      OBVIOUS
    <3>2. Entries(c) \in Nat /\ Cardinality(Fetched(c)) \in Nat BY <2>2
    <3> QED BY <3>1, <3>2, <2>3, <2>8, <2>9, <2>11, <2>12
  <2> QED BY <1>3, <2>10, <2>11, <2>13
<1> QED BY <1>2, <1>7, <1>8, <1>9, <1>10 DEF ReaderOK, readers

(* A client that has fetched nothing and is owed nothing. *)
LEMMA LeaveReader ==
    ASSUME TypeOK, NEW c \in Readers, ReaderOK(c), Leave(c)
    PROVE  ReaderOK(c)'
<1>1. /\ pc'[c] = "idle" /\ page'[c] = {} /\ seen'[c] = {} /\ shown'[c] = 0
      /\ promised'[c] = 0 /\ log' = log
  BY DEF Leave, TypeOK, writers
<1>2. Fetched(c)' = {} BY <1>1 DEF Fetched
<1>3. Again(c)' = {} BY <1>2 DEF Again
<1>4. Owed(c)' = {} BY <1>1 DEF Owed, Matching, TypeOK
<1>5. Entries(c)' = 0 BY <1>1 DEF Entries
<1>6. Len(log) \in Nat BY DEF TypeOK
<1>7. Cardinality({}) = 0 BY FS_EmptySet
<1> QED BY <1>1, <1>2, <1>3, <1>4, <1>5, <1>6, <1>7 DEF ReaderOK

(* A client that begins at the first page is owed nothing behind it. *)
LEMMA OpenReader ==
    ASSUME TypeOK, NEW c \in Readers, ReaderOK(c), NEW f \in Filters, NEW l \in 1..MaxLimit,
           NEW o \in 0..MaxOffset, Open(c, f, l, o)
    PROVE  ReaderOK(c)'
<1>1. /\ pc[c] = "idle" /\ pc'[c] = "list" /\ page'[c] = page[c] /\ seen'[c] = seen[c]
      /\ shown'[c] = shown[c] /\ promised'[c] = Len(log) /\ log' = log /\ query'[c] = f
      /\ offset'[c] = o /\ first'[c] = o
  BY DEF Open, TypeOK, writers
<1>2. page[c] = {} /\ seen[c] = {} /\ shown[c] = 0 BY <1>1 DEF ReaderOK
<1>3. Fetched(c)' = {} BY <1>1, <1>2 DEF Fetched
<1>4. Again(c)' = {} BY <1>3 DEF Again
<1>5. Entries(c)' = 0 /\ Reached(c)' = o BY <1>1, <1>2 DEF Entries, Reached
<1>6. Len(log) \in Nat /\ log \in Seq(Rows) BY DEF TypeOK
<1>7. Cardinality({}) = 0 BY FS_EmptySet
<1>8. \A i \in Owed(c)' : 0 <= Cardinality(Ahead(i, query[c])')
  <2> TAKE i \in Owed(c)'
  <2>1. i \in Matching(f) BY <1>1 DEF Owed, Matching, Matches
  <2>2. Ahead(i, query[c])' = Ahead(i, f) BY <1>1 DEF Ahead, Matching, Matches
  <2>3. Cardinality(Ahead(i, f)) \in Nat BY <2>1, <1>6, AheadFinite
  <2> QED BY <2>2, <2>3
<1> QED BY <1>1, <1>2, <1>3, <1>4, <1>5, <1>6, <1>7, <1>8 DEF ReaderOK

(* A page takes the client over the rows between its ends and no further. *)
LEMMA ListReader ==
    ASSUME TypeOK, NEW c \in Readers, ReaderOK(c), ListEvents(c)
    PROVE  ReaderOK(c)'
<1>1. PICK events \in Pages(query[c], limit[c], offset[c]) : Lists(c, events)
  BY DEF ListEvents
<1>2. /\ pc[c] = "list" /\ pc'[c] = "count" /\ page'[c] = events /\ listed'[c] = Len(log)
      /\ log' = log /\ query' = query /\ limit' = limit /\ offset' = offset /\ total' = total
      /\ first' = first /\ promised' = promised /\ seen' = seen /\ shown' = shown
  BY <1>1 DEF Lists, TypeOK, writers
<1>3. log \in Seq(Rows) /\ limit[c] \in Nat /\ offset[c] \in Nat /\ Len(log) \in Nat
  BY DEF TypeOK
<1> DEFINE M == Matching(query[c])
           o == offset[c]
           l == limit[c]
           rank(i) == Cardinality(Ahead(i, query[c]))
<1>4. /\ events \subseteq M /\ IsFiniteSet(events) /\ Cardinality(events) \in Nat
      /\ events # {} => o + Cardinality(events) <= Cardinality(M)
      /\ Cardinality(events) < l => Cardinality(M) <= o + Cardinality(events)
  BY <1>1, <1>3, PageFacts
<1>5. \A i \in M : AloneInTime(i, query[c]) =>
        /\ i \notin events /\ o <= rank(i) => o + l <= rank(i)
        /\ i \in events => o <= rank(i) /\ rank(i) < o + l
  BY <1>1, <1>3, PageFacts
<1>6. /\ M' = M /\ Owed(c)' = Owed(c) /\ (NoTies(query[c])' <=> NoTies(query[c]))
      /\ \A i : Ahead(i, query[c])' = Ahead(i, query[c])
  BY <1>2, SameListing
<1>7. page[c] = {} /\ Fetched(c) = seen[c] /\ Fetched(c)' = seen[c] \cup events
  BY <1>2 DEF ReaderOK, Fetched
<1>8. Reached(c) = o /\ Reached(c)' = o + l BY <1>2 DEF Reached
<1>9. Entries(c) = shown[c] /\ Entries(c)' = shown[c] + Cardinality(events)
  BY <1>2, <1>3 DEF Entries, TypeOK
<1>10. Fetched(c)' \subseteq M' BY <1>4, <1>6, <1>7 DEF ReaderOK
<1>11. Fits(c, Cardinality(Matching(query[c])))'
  <2>1. Cardinality(M) \in Nat BY <1>3, MatchingFinite
  <2> HIDE DEF M
  <2>2. Fits(c, Cardinality(M))' BY <2>1, <1>2, <1>3, <1>4, <1>6 DEF Fits
  <2> QED BY <2>2 DEF M
<1>12. ASSUME first'[c] = 0, NEW i \in Owed(c)' \ Fetched(c)'
       PROVE  Reached(c)' <= Cardinality(Ahead(i, query[c])')
  <2>1. i \in Owed(c) \ Fetched(c) /\ i \notin events BY <1>6, <1>7
  <2>2. o <= rank(i) BY <2>1, <1>2, <1>8, <1>12 DEF ReaderOK
  <2>3. i \in M /\ AloneInTime(i, query[c]) BY <2>1 DEF Owed
  <2> QED BY <2>1, <2>2, <2>3, <1>5, <1>6, <1>8
<1>13. ASSUME NoTies(query[c])'
       PROVE  Entries(c)' + Cardinality(Again(c)')
                <= Cardinality(Fetched(c)') + (Len(log') - promised'[c])
  <2> DEFINE old == events \cap seen[c]
             new == events \ seen[c]
  <2>1. \A i \in M : AloneInTime(i, query[c]) BY <1>6, <1>13 DEF NoTies
  <2>2. \A i \in Fetched(c) : i \in M /\ rank(i) \in Nat BY <1>3, AheadFinite DEF ReaderOK
  <2>3. Again(c)' = {i \in seen[c] : o + l <= rank(i)}
    <3>1. \A i \in events : ~(o + l <= rank(i))
      <4> TAKE i \in events
      <4>1. rank(i) \in Nat BY <1>3, <1>4, AheadFinite
      <4>2. rank(i) < o + l BY <1>4, <1>5, <2>1
      <4> QED BY <4>1, <4>2, <1>3
    <3> QED BY <3>1, <1>6, <1>7, <1>8 DEF Again
  <2>4. old \cap Again(c)' = {} /\ old \cup Again(c)' \subseteq Again(c)
    <3>1. \A i \in old : o <= rank(i) /\ ~(o + l <= rank(i)) /\ i \in Fetched(c)
      <4> TAKE i \in old
      <4>1. i \in Fetched(c) /\ i \in M /\ rank(i) \in Nat BY <1>7, <2>2
      <4>2. o <= rank(i) /\ rank(i) < o + l BY <4>1, <1>5, <2>1
      <4> QED BY <4>1, <4>2, <1>3
    <3>2. \A i \in Again(c)' : i \in Fetched(c) /\ o <= rank(i)
      BY <2>2, <2>3, <1>3, <1>7
    <3> QED BY <3>1, <3>2, <2>3, <1>8 DEF Again
  <2>5. /\ IsFiniteSet(old) /\ Cardinality(old) \in Nat /\ IsFiniteSet(new) /\ Cardinality(new) \in Nat
    BY <1>4, FS_Subset, FS_CardinalityType
  <2>6. Cardinality(events) = Cardinality(old) + Cardinality(new)
    <3>1. old \cap new = {} /\ old \cup new = events OBVIOUS
    <3> QED BY <2>5, <3>1, DisjointUnion
  <2>7. Cardinality(Fetched(c)') = Cardinality(seen[c]) + Cardinality(new)
    <3>1. seen[c] \cap new = {} /\ seen[c] \cup new = Fetched(c)' BY <1>7
    <3>2. IsFiniteSet(seen[c]) BY ReaderTypes
    <3> QED BY <2>5, <3>1, <3>2, DisjointUnion
  <2>8. /\ IsFiniteSet(Again(c)') /\ Cardinality(Again(c)') \in Nat
        /\ Cardinality(old) + Cardinality(Again(c)') <= Cardinality(Again(c))
    <3>1. IsFiniteSet(Again(c)) BY ReaderTypes
    <3>2. IsFiniteSet(Again(c)') /\ Cardinality(Again(c)') \in Nat
      BY <2>4, <3>1, FS_Subset, FS_CardinalityType
    <3>3. Cardinality(old \cup Again(c)') = Cardinality(old) + Cardinality(Again(c)')
      BY <2>4, <2>5, <3>2, DisjointUnion
    <3>4. Cardinality(old \cup Again(c)') <= Cardinality(Again(c)) BY <2>4, <3>1, FS_Subset
    <3> QED BY <3>2, <3>3, <3>4
  <2>9. Entries(c) + Cardinality(Again(c)) <= Cardinality(Fetched(c)) + (Len(log) - promised[c])
    BY <1>6, <1>13 DEF ReaderOK
  <2>10. /\ shown[c] \in Nat /\ Cardinality(seen[c]) \in Nat /\ promised[c] \in 0..Len(log)
         /\ Cardinality(Again(c)) \in Nat
    BY ReaderTypes
  <2>11. shown[c] + Cardinality(Again(c)) <= Cardinality(seen[c]) + (Len(log) - promised[c])
    BY <2>9, <1>7, <1>9
  <2>12. shown[c] + (Cardinality(old) + Cardinality(new)) + Cardinality(Again(c)')
           <= Cardinality(seen[c]) + Cardinality(new) + (Len(log) - promised[c])
    <3>1. \A s, a, b, p, q, t \in Nat, d \in Int :
            s + a <= t + d /\ p + b <= a => s + (p + q) + b <= t + q + d
      OBVIOUS
    <3>2. Len(log) - promised[c] \in Int BY <2>10, <1>3
    <3>3. Cardinality(old) + Cardinality(Again(c)') <= Cardinality(Again(c)) BY <2>8
    <3>4. Cardinality(Again(c)') \in Nat BY <2>8
    <3> HIDE DEF old, new
    <3> QED BY <2>5, <2>10, <2>11, <3>1, <3>2, <3>3, <3>4
  <2>13. log' = log /\ promised'[c] = promised[c] BY <1>2
  <2> HIDE DEF old, new
  <2> QED BY <2>6, <2>7, <2>12, <2>13, <1>9
<1> QED BY <1>2, <1>10, <1>11, <1>12, <1>13 DEF ReaderOK

(* The answer of the count is at least as far as the client is owed rows. *)
LEMMA CountReader ==
    ASSUME TypeOK, NEW c \in Readers, ReaderOK(c), CountEvents(c)
    PROVE  ReaderOK(c)' /\ Fits(c, total[c])'
<1> DEFINE M == Matching(query[c])
<1>1. /\ pc[c] = "count" /\ pc'[c] = "answered" /\ page' = page /\ listed' = listed
      /\ log' = log /\ query' = query /\ limit' = limit /\ offset' = offset
      /\ total'[c] = Cardinality(M) /\ seen'[c] = seen[c] \cup page[c]
      /\ shown'[c] = shown[c] + Cardinality(page[c])
      /\ first' = first /\ promised' = promised
  BY DEF CountEvents, TypeOK, writers
<1>2. /\ M' = M /\ Owed(c)' = Owed(c) /\ (NoTies(query[c])' <=> NoTies(query[c]))
      /\ \A i : Ahead(i, query[c])' = Ahead(i, query[c])
  BY <1>1, SameListing
<1>3. Fetched(c)' = Fetched(c) /\ Reached(c)' = Reached(c) BY <1>1 DEF Fetched, Reached
<1>4. Entries(c)' = Entries(c) BY <1>1, ReaderTypes DEF Entries
<1>5. Again(c)' = Again(c) BY <1>2, <1>3 DEF Again
<1>6. Fits(c, total[c])'
  <2>1. Fits(c, Cardinality(M)) BY <1>1 DEF ReaderOK
  <2> HIDE DEF M
  <2> QED BY <2>1, <1>1 DEF Fits
<1>7. ASSUME first'[c] = 0, NEW i \in Owed(c)' \ Fetched(c)'
      PROVE  Reached(c)' <= Cardinality(Ahead(i, query[c])') /\ Reached(c)' < total'[c]
  <2>1. i \in Owed(c) \ Fetched(c) /\ i \in M BY <1>2, <1>3 DEF Owed
  <2>2. Reached(c) <= Cardinality(Ahead(i, query[c])) BY <2>1, <1>1, <1>7 DEF ReaderOK
  <2>3. /\ Cardinality(Ahead(i, query[c])) \in Nat /\ Cardinality(M) \in Nat
        /\ Cardinality(Ahead(i, query[c])) < Cardinality(M)
    BY <2>1, AheadFinite, MatchingFinite DEF TypeOK
  <2>4. Reached(c) \in Nat BY ReaderTypes
  <2> HIDE DEF M
  <2> QED BY <2>2, <2>3, <2>4, <1>1, <1>2, <1>3
<1> QED BY <1>1, <1>2, <1>3, <1>4, <1>5, <1>6, <1>7 DEF ReaderOK, Fetched

(* The next page begins where the last one ended. *)
LEMMA NextPageReader ==
    ASSUME TypeOK, NEW c \in Readers, ReaderOK(c), NextPage(c)
    PROVE  ReaderOK(c)'
<1>1. /\ pc[c] = "answered" /\ pc'[c] = "list" /\ page'[c] = {} /\ offset'[c] = offset[c] + limit[c]
      /\ log' = log /\ query' = query /\ first' = first /\ promised' = promised
      /\ seen' = seen /\ shown' = shown
  BY DEF NextPage, TypeOK, writers
<1>2. /\ Matching(query[c])' = Matching(query[c])
      /\ Owed(c)' = Owed(c) /\ (NoTies(query[c])' <=> NoTies(query[c]))
      /\ \A i : Ahead(i, query[c])' = Ahead(i, query[c])
  BY <1>1, SameListing
<1>3. Fetched(c)' = Fetched(c) BY <1>1 DEF Fetched, ReaderOK
<1>4. Reached(c)' = Reached(c) /\ Entries(c)' = Entries(c) BY <1>1 DEF Reached, Entries
<1>5. Again(c)' = Again(c) BY <1>2, <1>3, <1>4 DEF Again
<1> QED BY <1>1, <1>2, <1>3, <1>4, <1>5 DEF ReaderOK

-----------------------------------------------------------------------------
(* Theorems *)

(* Every operation keeps what every client relies on. *)
LEMMA ReadersStep ==
    ASSUME AuditInv, [Next]_vars
    PROVE  TotalAgrees' /\ \A c \in Readers : ReaderOK(c)'
<1> SUFFICES ASSUME NEW c \in Readers
             PROVE  ReaderOK(c)' /\ (pc'[c] = "answered" => Fits(c, total[c])')
  BY DEF TotalAgrees
<1>1. /\ TypeOK /\ TypeOK' /\ ReaderOK(c) /\ (pc[c] = "answered" => Fits(c, total[c]))
  BY TypeStep DEF AuditInv, TotalAgrees
<1>2. ASSUME UNCHANGED <<log, readers>>
      PROVE  ReaderOK(c)' /\ (pc'[c] = "answered" => Fits(c, total[c])')
  BY <1>1, <1>2, SameReader DEF readers
<1>3. ASSUME NEW w \in Writers, Write(w)
      PROVE  ReaderOK(c)' /\ (pc'[c] = "answered" => Fits(c, total[c])')
  <2>1. ASSUME NEW event \in Events, Record(w, event)
        PROVE  ReaderOK(c)' /\ (pc'[c] = "answered" => Fits(c, total[c])')
    BY <1>1, <2>1, RecordReader
  <2>2. CASE \E now \in clock..MaxTime : Begin(w, now) BY <1>2, <2>2 DEF Begin
  <2>3. CASE End(w) BY <1>2, <2>3 DEF End
  <2> QED BY <1>3, <2>1, <2>2, <2>3 DEF Write
<1>4. ASSUME NEW d \in Readers, Read(d), d # c
      PROVE  ReaderOK(c)' /\ (pc'[c] = "answered" => Fits(c, total[c])')
  <2>1. /\ log' = log
        /\ pc'[c] = pc[c] /\ query'[c] = query[c] /\ limit'[c] = limit[c] /\ offset'[c] = offset[c]
        /\ page'[c] = page[c] /\ total'[c] = total[c] /\ listed'[c] = listed[c]
        /\ first'[c] = first[c] /\ promised'[c] = promised[c] /\ seen'[c] = seen[c]
        /\ shown'[c] = shown[c]
    <3>1. CASE \E f \in Filters, l \in 1..MaxLimit, o \in 0..MaxOffset : Open(d, f, l, o)
      BY <1>1, <1>4, <3>1 DEF Open, TypeOK, writers
    <3>2. CASE ListEvents(d) BY <1>1, <1>4, <3>2 DEF ListEvents, Lists, TypeOK, writers
    <3>3. CASE CountEvents(d) BY <1>1, <1>4, <3>3 DEF CountEvents, TypeOK, writers
    <3>4. CASE NextPage(d) BY <1>1, <1>4, <3>4 DEF NextPage, TypeOK, writers
    <3>5. CASE Leave(d) BY <1>1, <1>4, <3>5 DEF Leave, TypeOK, writers
    <3> QED BY <1>4, <3>1, <3>2, <3>3, <3>4, <3>5 DEF Read
  <2> QED BY <1>1, <2>1, SameReader
<1>5. ASSUME Read(c)
      PROVE  ReaderOK(c)' /\ (pc'[c] = "answered" => Fits(c, total[c])')
  <2>1. ASSUME NEW f \in Filters, NEW l \in 1..MaxLimit, NEW o \in 0..MaxOffset, Open(c, f, l, o)
        PROVE  ReaderOK(c)' /\ pc'[c] # "answered"
    BY <1>1, <2>1, OpenReader DEF Open, TypeOK
  <2>2. CASE ListEvents(c)
    <3>1. pc'[c] = "count" BY <1>1, <2>2 DEF ListEvents, Lists, TypeOK
    <3> QED BY <1>1, <2>2, <3>1, ListReader
  <2>3. CASE CountEvents(c) BY <1>1, <2>3, CountReader
  <2>4. CASE NextPage(c)
    <3>1. pc'[c] = "list" BY <1>1, <2>4 DEF NextPage, TypeOK
    <3> QED BY <1>1, <2>4, <3>1, NextPageReader
  <2>5. CASE Leave(c)
    <3>1. pc'[c] = "idle" BY <1>1, <2>5 DEF Leave, TypeOK
    <3> QED BY <1>1, <2>5, <3>1, LeaveReader
  <2> QED BY <1>5, <2>1, <2>2, <2>3, <2>4, <2>5 DEF Read
<1> QED BY <1>2, <1>3, <1>4, <1>5 DEF Next, vars, writers

(* The invariant holds throughout. *)
THEOREM AuditInvariant == Spec => []AuditInv
<1>1. AuditInv /\ [Next]_vars => AuditInv'
  BY TypeStep, TimesStep, LateStep, ReadersStep DEF AuditInv
<1> QED BY <1>1, InitInv, PTL DEF Spec

(* Every column, parameter and answer of the audit log has its type. *)
THEOREM AuditTypes == Spec => []TypeOK
BY AuditInvariant, PTL DEF AuditInv

(* The page and the total of GET /v1/audit-logs fit together, whatever is    *)
(* recorded between its two queries.                                         *)
THEOREM TotalsAgree == Spec => []TotalAgrees
BY AuditInvariant, PTL DEF AuditInv

(* Whoever follows the pages of list_events receives every row that was on   *)
(* record at the start and does not share its time.                          *)
THEOREM PagesAreComplete == Spec => []PagesCover
<1>1. ASSUME AuditInv PROVE PagesCover
  <2> SUFFICES ASSUME NEW c \in Readers, Through(c), first[c] = 0, NEW i \in Owed(c)
               PROVE  i \in seen[c]
    BY DEF PagesCover
  <2>1. pc[c] = "answered" /\ total[c] <= offset[c] + limit[c] BY DEF Through
  <2>2. Fetched(c) = seen[c] /\ Reached(c) = offset[c] + limit[c]
    BY <2>1, <1>1 DEF AuditInv, ReaderOK, Fetched, Reached
  <2>3. total[c] \in Nat /\ Reached(c) \in Nat BY <1>1, ReaderTypes DEF AuditInv
  <2>4. i \notin Fetched(c) => Reached(c) < total[c] BY <2>1, <1>1 DEF AuditInv, ReaderOK
  <2> QED BY <2>1, <2>2, <2>3, <2>4
<1> QED BY <1>1, AuditInvariant, PTL

(* Entries appear again on later pages at most as often as new rows were     *)
(* recorded.                                                                 *)
THEOREM RepeatsAreBounded == Spec => []RepeatsBounded
<1>1. ASSUME AuditInv PROVE RepeatsBounded
  <2> SUFFICES ASSUME NEW c \in Readers, NoTies(query[c])
               PROVE  shown[c] <= Cardinality(seen[c]) + (Len(log) - promised[c])
    BY DEF RepeatsBounded
  <2>1. Entries(c) + Cardinality(Again(c)) <= Cardinality(Fetched(c)) + (Len(log) - promised[c])
    BY <1>1 DEF AuditInv, ReaderOK
  <2>2. /\ shown[c] \in Nat /\ Cardinality(page[c]) \in Nat /\ Cardinality(seen[c]) \in Nat
        /\ Cardinality(Again(c)) \in Nat /\ Cardinality(Fetched(c)) \in Nat
        /\ Len(log) \in Nat /\ promised[c] \in 0..Len(log)
        /\ IsFiniteSet(seen[c]) /\ IsFiniteSet(page[c])
    BY <1>1, ReaderTypes DEF AuditInv
  <2>3. CASE pc[c] = "count"
    <3>1. Entries(c) = shown[c] + Cardinality(page[c]) BY <2>3 DEF Entries
    <3>2. Cardinality(Fetched(c)) <= Cardinality(seen[c]) + Cardinality(page[c])
      <4>1. /\ IsFiniteSet(seen[c] \cap page[c])
            /\ Cardinality(Fetched(c)) = Cardinality(seen[c]) + Cardinality(page[c])
                                           - Cardinality(seen[c] \cap page[c])
        BY <2>2, FS_Union, FS_Subset DEF Fetched
      <4>2. Cardinality(seen[c] \cap page[c]) \in Nat BY <4>1, FS_CardinalityType
      <4> QED BY <2>2, <4>1, <4>2
    <3>3. shown[c] + Cardinality(page[c]) + Cardinality(Again(c))
            <= Cardinality(seen[c]) + Cardinality(page[c]) + (Len(log) - promised[c])
      BY <2>1, <2>2, <3>1, <3>2
    <3> QED BY <2>2, <3>3
  <2>4. CASE pc[c] # "count"
    <3>1. Entries(c) = shown[c] BY <2>2, <2>4 DEF Entries
    <3>2. Fetched(c) = seen[c]
      BY <2>4, <1>1 DEF AuditInv, ReaderOK, Fetched, TypeOK
    <3> QED BY <2>1, <2>2, <3>1, <3>2
  <2> QED BY <2>3, <2>4
<1> QED BY <1>1, AuditInvariant, PTL

(* A row recorded after a client began is listed above what was on record,   *)
(* but for one row of each transaction that was open then.                   *)
THEOREM LateRowsAreBounded == Spec => []LateRowsBounded
<1>1. ASSUME AuditInv PROVE LateRowsBounded
  <2> SUFFICES ASSUME NEW c \in Readers PROVE Cardinality(Late(c)) <= opened[c]
    BY DEF LateRowsBounded
  <2>1. LateOK(c) BY <1>1 DEF AuditInv
  <2>2. Cardinality(Late(c)) \in Nat /\ Cardinality(pending[c]) \in Nat /\ opened[c] \in Nat
    BY <1>1, <2>1, LateTypes DEF AuditInv
  <2> QED BY <2>1, <2>2 DEF LateOK
<1> QED BY <1>1, AuditInvariant, PTL
=============================================================================
