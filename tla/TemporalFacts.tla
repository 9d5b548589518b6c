----------------------------- MODULE TemporalFacts -----------------------------
(***************************************************************************)
(* What the resolver of module Temporal returns, for ledgers of any size:  *)
(* its head is a row of the ledger, of the winning period, and a           *)
(* predecessor is an earlier one.  And what the two kinds of write do to a *)
(* set of rows: they carry every row over, but for its accepted marker.    *)
(***************************************************************************)
EXTENDS Temporal, FiniteSets, FiniteSetTheorems, TLAPS

(* The fields a query looks at. *)
LEMMA RowFields ==
  ASSUME NEW r \in Rows
  PROVE  /\ r.uid \in UIDs /\ r.uid \in Int
         /\ r.eff \in Times /\ r.eff \in Int
         /\ r.observed \in Times /\ r.observed \in Int
         /\ r.recorded \in Times /\ r.recorded \in Int
         /\ r.value \in Values
         /\ r.ref \in UIDs \cup {NoUID}
         /\ r.revoked \in BOOLEAN /\ r.accepted \in BOOLEAN
  <1>1. /\ r.uid \in UIDs /\ r.eff \in Times /\ r.observed \in Times
        /\ r.recorded \in Times /\ r.value \in Values /\ r.ref \in UIDs \cup {NoUID}
        /\ r.revoked \in BOOLEAN /\ r.accepted \in BOOLEAN
    BY DEF Rows
  <1>2. \A t \in Times : t \in Int
    BY TimeBound DEF Times
  <1>3. \A u \in UIDs : u \in Int
    BY UIDsOrdered
  <1>4. QED
    BY <1>1, <1>2, <1>3

(* The sort of the candidates is total and transitive. *)
LEMMA SortIsTotal ==
  ASSUME NEW a \in Rows, NEW b \in Rows
  PROVE  SortsBefore(a, b) \/ SortsBefore(b, a)
  BY RowFields DEF SortsBefore

LEMMA SortIsTransitive ==
  ASSUME NEW a \in Rows, NEW b \in Rows, NEW c \in Rows,
         SortsBefore(a, b), SortsBefore(b, c)
  PROVE  SortsBefore(a, c)
  BY RowFields DEF SortsBefore

LEMMA SortIsAntisymmetric ==
  ASSUME NEW a \in Rows, NEW b \in Rows, SortsBefore(a, b), SortsBefore(b, a)
  PROVE  a.uid = b.uid
  BY RowFields DEF SortsBefore

(* A finite set has a greatest element under a total, transitive relation:  *)
(* a smallest set without one would lose that property with any element.    *)
LEMMA GreatestExists ==
  ASSUME NEW S, IsFiniteSet(S), S # {}, NEW R,
         \A a, b \in S : <<a, b>> \in R \/ <<b, a>> \in R,
         \A a, b, c \in S : <<a, b>> \in R /\ <<b, c>> \in R => <<a, c>> \in R
  PROVE  \E r \in S : \A c \in S : <<c, r>> \in R
  <1> DEFINE HasGreatest(T) == \E r \in T : \A c \in T : <<c, r>> \in R
             Bad == {T \in SUBSET S : T # {} /\ ~HasGreatest(T)}
  <1>1. SUFFICES ASSUME Bad # {} PROVE FALSE
    BY DEF Bad
  <1>2. Bad \subseteq FiniteSubsetsOf(S)
    BY FS_Subset DEF FiniteSubsetsOf
  <1>3. PICK T \in Bad : \A U \in Bad : ~(<<U, T>> \in StrictSubsetOrdering(S))
    <2>1. IsWellFoundedOn(StrictSubsetOrdering(S), FiniteSubsetsOf(S))
      BY FS_StrictSubsetOrderingWellFounded
    <2> HIDE DEF Bad
    <2>2. QED
      BY <1>1, <1>2, <2>1, WFMin
  <1>4. T # {} /\ ~HasGreatest(T) /\ T \subseteq S
    OBVIOUS
  <1>5. PICK x \in T : TRUE
    BY <1>4
  <1>6. CASE T \ {x} = {}
    BY <1>4, <1>6
  <1>7. CASE T \ {x} # {}
    <2>1. <<T \ {x}, T>> \in StrictSubsetOrdering(S)
      BY <1>4, <1>5 DEF StrictSubsetOrdering
    <2>2. PICK m \in T \ {x} : \A c \in T \ {x} : <<c, m>> \in R
      BY <1>3, <1>4, <1>7, <2>1
    <2>3. CASE <<x, m>> \in R
      BY <1>4, <2>2, <2>3
    <2>4. CASE <<m, x>> \in R
      <3>1. \A c \in T \ {x} : <<c, x>> \in R
        BY <1>4, <1>5, <2>2, <2>4
      <3>2. <<x, x>> \in R
        BY <1>4
      <3>3. QED
        BY <1>4, <1>5, <3>1, <3>2
    <2>5. QED
      BY <1>4, <1>5, <2>2, <2>3, <2>4
  <1>8. QED
    BY <1>6, <1>7

(* So finitely many candidates have a last one, ... *)
LEMMA LastExists ==
  ASSUME NEW S \in SUBSET Rows, IsFiniteSet(S), S # {}
  PROVE  \E r \in S : \A c \in S : SortsBefore(c, r)
  <1> DEFINE R == {p \in S \X S : SortsBefore(p[1], p[2])}
  <1>1. \A a, b \in S : <<a, b>> \in R <=> SortsBefore(a, b)
    OBVIOUS
  <1>2. \A a, b \in S : <<a, b>> \in R \/ <<b, a>> \in R
    BY <1>1, SortIsTotal
  <1>3. \A a, b, c \in S : <<a, b>> \in R /\ <<b, c>> \in R => <<a, c>> \in R
    BY <1>1, SortIsTransitive
  <1> HIDE DEF R
  <1>4. QED
    BY <1>1, <1>2, <1>3, GreatestExists

(* ... and so has the latest period of a finite ledger. *)
LEMMA LatestExists ==
  ASSUME NEW S \in SUBSET Rows, IsFiniteSet(S), S # {}
  PROVE  \E r \in S : \A c \in S : c.eff <= r.eff
  <1> DEFINE R == {p \in S \X S : p[1].eff <= p[2].eff}
  <1>1. \A a, b \in S : <<a, b>> \in R <=> a.eff <= b.eff
    OBVIOUS
  <1>2. \A a \in S : a.eff \in Int
    BY RowFields
  <1> HIDE DEF R
  <1>3. ASSUME NEW a \in S, NEW b \in S
        PROVE  <<a, b>> \in R \/ <<b, a>> \in R
    <2>1. a.eff <= b.eff \/ b.eff <= a.eff
      BY <1>2
    <2>2. QED
      BY <1>1, <2>1
  <1>4. \A a, b, c \in S : <<a, b>> \in R /\ <<b, c>> \in R => <<a, c>> \in R
    BY <1>1, <1>2
  <1>5. QED
    BY <1>1, <1>3, <1>4, GreatestExists

(* The head of a ledger is one of its candidates. *)
LEMMA HeadIsCandidate ==
  ASSUME NEW L \in SUBSET Rows, IsFiniteSet(L), NEW v, CanonicalHead(L, v) # NoRow
  PROVE  CanonicalHead(L, v) \in Candidates(L, v)
  <1> DEFINE C == Candidates(L, v)
  <1>1. C \subseteq L
    BY DEF Candidates, Active, Available
  <1>2. C # {} /\ CanonicalHead(L, v) = CHOOSE r \in C : \A c \in C : SortsBefore(c, r)
    BY DEF CanonicalHead
  <1>3. C \in SUBSET Rows /\ IsFiniteSet(C)
    BY <1>1, FS_Subset
  <1>4. \E r \in C : \A c \in C : SortsBefore(c, r)
    BY <1>2, <1>3, LastExists
  <1>5. QED
    BY <1>2, <1>4

(* ... and no candidate sorts after it. *)
LEMMA HeadIsLast ==
  ASSUME NEW L \in SUBSET Rows, IsFiniteSet(L), NEW v, CanonicalHead(L, v) # NoRow,
         NEW c \in Candidates(L, v)
  PROVE  SortsBefore(c, CanonicalHead(L, v))
  <1> DEFINE C == Candidates(L, v)
  <1>1. C \subseteq L
    BY DEF Candidates, Active, Available
  <1>2. C # {} /\ CanonicalHead(L, v) = CHOOSE r \in C : \A d \in C : SortsBefore(d, r)
    BY DEF CanonicalHead
  <1>3. C \in SUBSET Rows /\ IsFiniteSet(C)
    BY <1>1, FS_Subset
  <1>4. \E r \in C : \A d \in C : SortsBefore(d, r)
    BY <1>2, <1>3, LastExists
  <1>5. QED
    BY <1>2, <1>4

(* A candidate is an unrevoked row of the ledger that has begun. *)
LEMMA CandidateIsRow ==
  ASSUME NEW L, NEW v, NEW r \in Candidates(L, v)
  PROVE  r \in L /\ ~r.revoked /\ r.eff <= v
  BY DEF Candidates, Active, Available

(* A new row is linked to a row of the ledger, of an earlier period. *)
LEMMA PredecessorIsEarlier ==
  ASSUME NEW L \in SUBSET Rows, IsFiniteSet(L), NEW eff \in Times, Predecessor(L, eff) # NoUID
  PROVE  \E p \in L : p.uid = Predecessor(L, eff) /\ p.eff < eff
  <1> DEFINE head == CanonicalHead(L, IF eff = 0 THEN 0 ELSE eff - 1)
  <1>1. head # NoRow /\ ~(head.eff >= eff) /\ Predecessor(L, eff) = head.uid
    BY DEF Predecessor
  <1>2. head \in L
    BY <1>1, HeadIsCandidate, CandidateIsRow
  <1>3. head.eff \in Int /\ eff \in Int
    BY <1>2, RowFields, TimeBound DEF Times
  <1>4. QED
    BY <1>1, <1>2, <1>3

LEMMA PredecessorType ==
  ASSUME NEW L \in SUBSET Rows, IsFiniteSet(L), NEW eff \in Times
  PROVE  Predecessor(L, eff) \in UIDs \cup {NoUID}
  BY PredecessorIsEarlier, RowFields

-----------------------------------------------------------------------------
(* Two rows that may differ in their accepted marker only. *)
SameRow(r, t) ==
  /\ t.uid = r.uid /\ t.value = r.value /\ t.eff = r.eff /\ t.until = r.until
  /\ t.observed = r.observed /\ t.recorded = r.recorded
  /\ t.ref = r.ref /\ t.revoked = r.revoked

(* Every row of L is a row of M. *)
Within(L, M) == \A r \in L : \E t \in M : SameRow(r, t)

(* save_observation: one row is written over the row of its UID, if any. *)
LEMMA SavedRows ==
  ASSUME NEW L \in Ledgers, IsFiniteSet(L), NEW row \in Rows,
         \A r \in L : r.uid = row.uid => SameRow(r, row),
         NEW M, M = {r \in L : r.uid # row.uid} \cup {row}
  PROVE  M \in Ledgers /\ IsFiniteSet(M) /\ Within(L, M)
  <1>1. M \in Ledgers
    BY DEF Ledgers
  <1>2. IsFiniteSet(M)
    <2>1. IsFiniteSet({r \in L : r.uid # row.uid})
      BY FS_Subset
    <2>2. QED
      BY <2>1, FS_AddElement
  <1>3. Within(L, M)
    BY DEF Within, SameRow
  <1>4. QED
    BY <1>1, <1>2, <1>3

(* promote_acceptance: some rows are marked. *)
LEMMA MarkedRows ==
  ASSUME NEW L \in Ledgers, IsFiniteSet(L), NEW U,
         NEW M, M = {[r EXCEPT !.accepted = @ \/ r \in U] : r \in L}
  PROVE  M \in Ledgers /\ IsFiniteSet(M) /\ Within(L, M) /\ Within(M, L)
  <1> DEFINE Mark(r) == [r EXCEPT !.accepted = @ \/ r \in U]
             mark == [r \in L |-> Mark(r)]
  <1>1. ASSUME NEW r \in L
        PROVE  Mark(r) \in Rows /\ SameRow(r, Mark(r)) /\ SameRow(Mark(r), r)
    <2>1. r \in Rows
      BY DEF Ledgers
    <2>2. QED
      BY <2>1 DEF Rows, SameRow
  <1>2. M \in Ledgers
    <2>1. M \subseteq Rows
      BY <1>1
    <2>2. ASSUME NEW a \in M, NEW b \in M, a.uid = b.uid PROVE a = b
      <3>1. PICK x \in L : a = Mark(x)
        OBVIOUS
      <3>2. PICK y \in L : b = Mark(y)
        OBVIOUS
      <3>3. x.uid = y.uid
        BY <1>1, <2>2, <3>1, <3>2 DEF SameRow
      <3>4. x = y
        BY <3>3 DEF Ledgers
      <3>5. QED
        BY <3>1, <3>2, <3>4
    <2>3. QED
      BY <2>1, <2>2 DEF Ledgers
  <1>3. IsFiniteSet(M)
    <2>1. mark \in Surjection(L, M)
      BY DEF Surjection
    <2>2. QED
      BY <2>1, FS_Surjection
  <1>4. M = {Mark(r) : r \in L}
    OBVIOUS
  <1> HIDE DEF Mark
  <1>5. Within(L, M)
    BY <1>1, <1>4 DEF Within
  <1>6. Within(M, L)
    BY <1>1, <1>4 DEF Within
  <1>7. QED
    BY <1>2, <1>3, <1>5, <1>6

-----------------------------------------------------------------------------
(* The resolver does not look at the accepted markers, so a ledger and its  *)
(* copy have a head at the same instants: the head is missing exactly when  *)
(* the ledger is unresolvable or its candidates disagree or are none.       *)
LEMMA HeadExists ==
  ASSUME NEW L \in SUBSET Rows, IsFiniteSet(L), NEW v,
         ~Unresolvable(L), ~Disagree(Candidates(L, v)), Candidates(L, v) # {}
  PROVE  CanonicalHead(L, v) # NoRow
  <1> DEFINE C == Candidates(L, v)
  <1>1. C \subseteq L
    BY DEF Candidates, Active, Available
  <1>2. C \in SUBSET Rows /\ IsFiniteSet(C)
    BY <1>1, FS_Subset
  <1>3. \E r \in C : \A c \in C : SortsBefore(c, r)
    BY <1>2, LastExists
  <1>4. CanonicalHead(L, v) \in C
    BY <1>3 DEF CanonicalHead
  <1>5. QED
    BY <1>2, <1>4, NoRowIsNone

(* Every query up to the candidates finds the copy of each row it found. *)
LEMMA CandidatesAreCarried ==
  ASSUME NEW L, NEW M, Within(L, M), Within(M, L), NEW v, NEW r \in Candidates(L, v)
  PROVE  \E t \in Candidates(M, v) : SameRow(r, t)
  <1>1. ASSUME NEW X, NEW Y, Within(X, Y), NEW x \in Superseded(X, v),
               NEW y \in Y, SameRow(x, y)
        PROVE  y \in Superseded(Y, v)
    <2>1. x \in X /\ ~x.revoked
      BY DEF Superseded, Available
    <2>2. PICK e \in Ends(X, x) : v >= e
      BY DEF Superseded
    <2>3. e \in Ends(Y, y)
      <3>1. ASSUME NEW c \in Children(X, x), e = c.eff
            PROVE  \E d \in Children(Y, y) : e = d.eff
        <4>1. c \in X /\ ~c.revoked /\ c.ref = x.uid
          BY DEF Children, Available
        <4>2. PICK d \in Y : SameRow(c, d)
          BY <1>1, <4>1 DEF Within
        <4>3. QED
          BY <1>1, <3>1, <4>1, <4>2 DEF SameRow, Children, Available
      <3>2. QED
        BY <1>1, <2>2, <3>1 DEF Ends, SameRow
    <2>4. QED
      BY <1>1, <2>1, <2>2, <2>3 DEF Superseded, Available, SameRow
  <1>2. ASSUME NEW X, NEW Y, Within(X, Y), Within(Y, X),
               NEW x \in Active(X, v), NEW y \in Y, SameRow(x, y)
        PROVE  y \in Active(Y, v)
    <2>1. x \in X /\ ~x.revoked /\ x \notin Superseded(X, v) /\ x.eff <= v
      BY DEF Active, Available
    <2>2. SameRow(y, x)
      BY <1>2 DEF SameRow
    <2>3. y \notin Superseded(Y, v)
      BY <1>1, <1>2, <2>1, <2>2
    <2>4. QED
      BY <1>2, <2>1, <2>3 DEF Active, Available, SameRow
  <1>3. r \in Active(L, v) /\ r \in L /\ \A a \in Active(L, v) : a.eff <= r.eff
    BY DEF Candidates, Active, Available
  <1>4. PICK t \in M : SameRow(r, t)
    BY <1>3 DEF Within
  <1>5. t \in Active(M, v)
    BY <1>2, <1>3, <1>4
  <1>6. ASSUME NEW b \in Active(M, v) PROVE b.eff <= t.eff
    <2>1. b \in M
      BY DEF Active, Available
    <2>2. PICK a \in L : SameRow(b, a)
      BY <2>1 DEF Within
    <2>3. a \in Active(L, v)
      BY <1>2, <2>2
    <2>4. QED
      BY <1>3, <1>4, <2>2, <2>3 DEF SameRow
  <1>7. QED
    BY <1>4, <1>5, <1>6 DEF Candidates

LEMMA HeadSurvives ==
  ASSUME NEW L \in SUBSET Rows, NEW M \in SUBSET Rows, IsFiniteSet(M),
         Within(L, M), Within(M, L), NEW v, CanonicalHead(L, v) # NoRow
  PROVE  CanonicalHead(M, v) # NoRow
  <1>1. ~Unresolvable(L) /\ ~Disagree(Candidates(L, v)) /\ Candidates(L, v) # {}
    BY DEF CanonicalHead
  <1>2. ~Unresolvable(M)
    <2> SUFFICES ASSUME NEW p \in Available(M), NEW c \in Children(M, p), c.eff < p.eff
                 PROVE  FALSE
      BY DEF Unresolvable
    <2>1. p \in M /\ c \in M /\ ~p.revoked /\ ~c.revoked /\ c.ref = p.uid
      BY DEF Available, Children
    <2>2. PICK q \in L : SameRow(p, q)
      BY <2>1 DEF Within
    <2>3. PICK d \in L : SameRow(c, d)
      BY <2>1 DEF Within
    <2>4. q \in Available(L) /\ d \in Children(L, q) /\ d.eff < q.eff
      BY <2>1, <2>2, <2>3 DEF SameRow, Available, Children
    <2>5. QED
      BY <1>1, <2>4 DEF Unresolvable
  <1>3. ~Disagree(Candidates(M, v))
    <2> SUFFICES ASSUME NEW a \in Candidates(M, v), NEW b \in Candidates(M, v), a.value # b.value
                 PROVE  FALSE
      BY DEF Disagree
    <2>1. PICK x \in Candidates(L, v) : SameRow(a, x)
      BY CandidatesAreCarried
    <2>2. PICK y \in Candidates(L, v) : SameRow(b, y)
      BY CandidatesAreCarried
    <2>3. QED
      BY <1>1, <2>1, <2>2 DEF SameRow, Disagree
  <1>4. Candidates(M, v) # {}
    BY <1>1, CandidatesAreCarried
  <1>5. QED
    BY <1>2, <1>3, <1>4, HeadExists

(* And the heads of a ledger and its copy are copies of each other: the     *)
(* candidates are sorted by what a copy keeps, down to the UID.             *)
LEMMA HeadIsCarried ==
  ASSUME NEW L \in Ledgers, NEW M \in Ledgers, IsFiniteSet(L), IsFiniteSet(M),
         Within(L, M), Within(M, L), NEW v, CanonicalHead(L, v) # NoRow
  PROVE  SameRow(CanonicalHead(L, v), CanonicalHead(M, v))
  <1>1. L \in SUBSET Rows /\ M \in SUBSET Rows
    BY DEF Ledgers
  <1>2. CanonicalHead(M, v) # NoRow
    BY <1>1, HeadSurvives
  <1>3. PICK h, g : h = CanonicalHead(L, v) /\ g = CanonicalHead(M, v)
    OBVIOUS
  <1>4. h \in Candidates(L, v) /\ g \in Candidates(M, v)
    BY <1>1, <1>2, <1>3, HeadIsCandidate
  <1>5. PICK t \in Candidates(M, v) : SameRow(h, t)
    BY <1>4, CandidatesAreCarried
  <1>6. PICK x \in Candidates(L, v) : SameRow(g, x)
    BY <1>4, CandidatesAreCarried
  <1>7. SortsBefore(t, g) /\ SortsBefore(x, h)
    BY <1>1, <1>2, <1>3, <1>5, <1>6, HeadIsLast
  <1>8. SortsBefore(g, t)
    BY <1>5, <1>6, <1>7 DEF SortsBefore, SameRow
  <1>9. t \in M /\ g \in M /\ t \in Rows /\ g \in Rows
    BY <1>1, <1>4, <1>5, CandidateIsRow
  <1>10. t = g
    BY <1>7, <1>8, <1>9, SortIsAntisymmetric DEF Ledgers
  <1>11. QED
    BY <1>3, <1>5, <1>10

-----------------------------------------------------------------------------
(* A row as a delivery records it: no end, no revocation, and linked, if at *)
(* all, to a row of an earlier period.                                      *)
IsDelivered(r, L) ==
  /\ ~r.revoked
  /\ r.until = NoTime
  /\ r.ref # NoUID => \E p \in L : p.uid = r.ref /\ p.eff < r.eff

(* A delivered row stays one when the rows of its ledger are carried over. *)
LEMMA DeliveredIsCarried ==
  ASSUME NEW L, NEW M, Within(L, M), NEW r, NEW t, SameRow(r, t), IsDelivered(r, L)
  PROVE  IsDelivered(t, M)
  BY DEF IsDelivered, Within, SameRow

(* A ledger of delivered rows resolves: no row supersedes a later one.      *)
LEMMA DeliveredResolves ==
  ASSUME NEW L \in Ledgers, \A r \in L : IsDelivered(r, L)
  PROVE  ~Unresolvable(L)
  <1> SUFFICES ASSUME NEW p \in Available(L), NEW c \in Children(L, p)
               PROVE  ~(c.eff < p.eff)
    BY DEF Unresolvable
  <1>1. p \in L /\ c \in L /\ c.ref = p.uid
    BY DEF Available, Children
  <1>2. p \in Rows /\ c \in Rows /\ p.uid # NoUID
    BY <1>1, RowFields, Sentinels DEF Ledgers
  <1>3. PICK q \in L : q.uid = c.ref /\ q.eff < c.eff
    BY <1>1, <1>2 DEF IsDelivered
  <1>4. q = p
    BY <1>1, <1>3 DEF Ledgers
  <1>5. QED
    BY <1>2, <1>3, <1>4, RowFields

(* Among delivered rows that have begun, those of the latest period are     *)
(* active.                                                                  *)
LEMMA LatestIsActive ==
  ASSUME NEW L \in Ledgers, \A r \in L : IsDelivered(r, L),
         NEW v \in Times, NEW m \in L, m.eff <= v,
         \A x \in L : x.eff <= v => x.eff <= m.eff
  PROVE  m \in Active(L, v)
  <1>1. L \in SUBSET Rows
    BY DEF Ledgers
  <1>2. ~m.revoked /\ m.until = NoTime
    BY DEF IsDelivered
  <1>3. ASSUME NEW e \in Ends(L, m), v >= e PROVE FALSE
    <2>1. PICK c \in Children(L, m) : e = c.eff
      BY <1>2, <1>3 DEF Ends
    <2>2. c \in L /\ c.ref = m.uid
      BY <2>1 DEF Children, Available
    <2>3. PICK q \in L : q.uid = c.ref /\ q.eff < c.eff
      BY <1>1, <2>2, RowFields, Sentinels DEF IsDelivered
    <2>4. q = m
      BY <2>2, <2>3 DEF Ledgers
    <2>5. c.eff \in Int /\ m.eff \in Int /\ v \in Int
      BY <1>1, <2>2, RowFields, TimeBound DEF Times
    <2>6. c.eff <= m.eff
      BY <1>3, <2>1, <2>2, <2>5
    <2>7. QED
      BY <2>3, <2>4, <2>5, <2>6
  <1>4. QED
    BY <1>2, <1>3 DEF Active, Superseded, Available

(* So the candidates of such a ledger are the rows of the latest period     *)
(* that has begun.                                                          *)
LEMMA CandidatesAreLatest ==
  ASSUME NEW L \in Ledgers, IsFiniteSet(L), \A r \in L : IsDelivered(r, L),
         NEW v \in Times, NEW c \in L
  PROVE  c \in Candidates(L, v) <=> /\ c.eff <= v
                                    /\ \A x \in L : x.eff <= v => x.eff <= c.eff
  <1>1. L \in SUBSET Rows /\ v \in Int
    BY TimeBound DEF Ledgers, Times
  <1>2. \A x \in L : x.eff \in Int
    BY <1>1, RowFields
  <1>3. ASSUME c \in Candidates(L, v), NEW x \in L, x.eff <= v PROVE x.eff <= c.eff
    <2> DEFINE begun == {y \in L : y.eff <= v}
    <2>1. begun \in SUBSET Rows /\ IsFiniteSet(begun) /\ x \in begun
      BY <1>1, <1>3, FS_Subset
    <2>2. PICK m \in begun : \A y \in begun : y.eff <= m.eff
      BY <2>1, LatestExists
    <2>3. m \in Active(L, v)
      BY <2>2, LatestIsActive
    <2>4. m.eff <= c.eff /\ x.eff <= m.eff
      BY <1>3, <2>1, <2>2, <2>3 DEF Candidates
    <2>5. QED
      BY <1>2, <2>2, <2>4
  <1>4. ASSUME c.eff <= v, \A x \in L : x.eff <= v => x.eff <= c.eff
        PROVE  c \in Candidates(L, v)
    <2>1. c \in Active(L, v)
      BY <1>4, LatestIsActive
    <2>2. \A a \in Active(L, v) : a \in L /\ a.eff <= v
      BY DEF Active, Available
    <2>3. QED
      BY <1>4, <2>1, <2>2 DEF Candidates
  <1>5. QED
    BY <1>3, <1>4, CandidateIsRow
=============================================================================
